---- MODULE Spec2Model ----
(***************************************************************************)
(* State-machine model of the thermal-camera ThingsBoard client:           *)
(*   - ThermalSpotManager / SpotPersistence (the spot registry and store), *)
(*   - MQTTClient (connection life cycle with exponential backoff),        *)
(*   - PahoCClient + ThingsBoardDevice (RPC request/response path).        *)
(* Each component has its own specification; the variables of the other    *)
(* components stay at their initial values.                                *)
(***************************************************************************)
EXTENDS Integers, Sequences, FiniteSets, TLC

VARIABLES
    \* ---- ThermalSpotManager -------------------------------------------
    spots_,         \* std::map<std::string, unique_ptr<MeasurementSpot>>
    file,           \* the persistence file thermal_spots.json
    last_call,      \* the last registry call and what it returned
    save_failures,  \* how often opening the file for writing has failed
    backups,        \* the files thermal_spots.json.backup.<timestamp>
    now,            \* the wall clock, in seconds
    temp_range,     \* min_temp and max_temp of the spots created or moved
    temperature,    \* what getSpotTemperature returned last
    \* ---- the two threads that use the registry -------------------------
    tel_pc,         \* telemetry loop (main thread): position
    tel_snapshot,   \* telemetry loop: ids copied by listSpots, still to read
    rpc_pc,         \* MQTT delivery callback thread: position
    \* ---- MQTTClient ---------------------------------------------------
    impl,                     \* which client class the run instantiates
    client_ok,                \* client_ != nullptr (the constructor succeeded)
    connection_state,         \* state_.connection_state
    reconnect_attempts,       \* state_.reconnect_attempts
    auto_reconnect_enabled_,
    initial_delay_ms_,
    max_delay_ms_,
    max_attempts_,
    outstanding,              \* transport connects awaiting their completion
    link,                     \* client_->is_connected()
    timers,                   \* detached reconnect threads still sleeping
    woken,                    \* reconnect threads that found RECONNECTING
    mid,                      \* threads inside attempt_reconnect, past its test
    last_delay,               \* delay of the reconnect scheduled last
    failures,                 \* retriable failures since the last success
    conn_event,               \* the last event and what it did
    crashed,                  \* the process has died
    conn_opts,                \* the connect options asked for and presented
    \* ---- ThingsBoardDevice on PahoCClient ------------------------------
    auto_reconnect_requested, \* the last argument of set_auto_reconnect
    thermal_rpc_handler_,     \* a ThermalRPCHandler is installed
    response_callback_,       \* ThermalRPCHandler: a response callback is set
    disc_pending,             \* disconnects awaiting on_disconnect_wrapper
    sub_threads,              \* detached subscription threads not yet run
    subscribed,               \* the broker holds the RPC subscription
    rpc,                      \* the RPC requests delivered so far
    \* ---- publish() of either client -----------------------------------
    total_errors,             \* state_.total_errors (MQTTClientState)
    total_messages_sent,      \* state_.total_messages_sent / stats_.messages_sent
    last_publish,             \* the last publish() call and what it did
    last_telemetry            \* the last send_telemetry() call and its result

regVars  == <<spots_, file, last_call, save_failures, backups, now,
              temp_range, temperature>>
raceVars == <<tel_pc, tel_snapshot, rpc_pc>>
connVars == <<impl, client_ok, connection_state, reconnect_attempts,
              auto_reconnect_enabled_, initial_delay_ms_, max_delay_ms_,
              max_attempts_, outstanding, link, timers, woken, mid,
              last_delay, failures, conn_event, crashed, conn_opts>>
devVars  == <<auto_reconnect_requested, thermal_rpc_handler_, response_callback_, disc_pending,
              sub_threads, subscribed, rpc>>
statVars == <<total_errors, total_messages_sent, last_publish, last_telemetry>>
vars     == <<regVars, raceVars, connVars, devVars, statVars>>

(***************************************************************************)
(* Bounds of the model                                                     *)
(***************************************************************************)
MaxFileId       == 6   \* ids 0..MaxFileId occur in an initial store file
MaxSaveFailures == 1   \* writes of the store that may fail in one run
MaxAttemptsCfg  == 2   \* max_attempts is configured in 0..MaxAttemptsCfg
MaxFailures     == 3   \* retriable failures in a row without a success
MaxOutstanding  == 2   \* transport connects in flight at a time
MaxTimers       == 2   \* detached reconnect threads alive at a time

(***************************************************************************)
(* Program constants                                                       *)
(***************************************************************************)
MAX_SPOTS    == 5
IMAGE_WIDTH  == 320
IMAGE_HEIGHT == 240

\* std::to_string / std::stoi on the one-digit ids the model uses
Digits == <<"1", "2", "3", "4", "5", "6", "7", "8", "9">>
to_string(n) == IF n \in 1..9 THEN Digits[n] ELSE "0"
stoi(s) == IF \E n \in 1..9 : Digits[n] = s
           THEN CHOOSE n \in 1..9 : Digits[n] = s
           ELSE 0

\* Spot ids an RPC or the configuration may pass, and coordinates
CallIds == {"1", "2", "3", "4", "5", "6"}
CallCoords == {<<0, 0>>, <<319, 239>>, <<-1, 0>>, <<320, 0>>, <<0, 240>>}

(***************************************************************************)
(* MeasurementSpot                                                         *)
(***************************************************************************)
\* MeasurementSpot::is_ready
is_ready(spot) == spot.enabled /\ spot.state = "ACTIVE"

\* MeasurementSpot::validate on a record of the file; cfg_ok stands for the
\* name, temperature band and noise factor checks
validate(rec) == rec.id > 0 /\ rec.cfg_ok /\ rec.x >= 0 /\ rec.y >= 0

\* MeasurementSpot::from_json: the state follows the enabled flag
from_json(rec) ==
    [id |-> rec.id, x |-> rec.x, y |-> rec.y, enabled |-> rec.enabled,
     state |-> IF rec.enabled THEN "ACTIVE" ELSE "INACTIVE"]

\* MeasurementSpot::to_json (the fields the model keeps)
to_json(spot) ==
    [id |-> spot.id, x |-> spot.x, y |-> spot.y, enabled |-> spot.enabled,
     cfg_ok |-> TRUE]

\* SpotPersistence::spotToJson: to_json and the status of the runtime state
\* (createdAt and lastReading are timestamps and left out)
spotToJson(spot) ==
    [id |-> spot.id, x |-> spot.x, y |-> spot.y, enabled |-> spot.enabled,
     cfg_ok |-> TRUE,
     status |-> IF spot.state = "ACTIVE" THEN "active" ELSE "inactive"]

(***************************************************************************)
(* SpotPersistence                                                         *)
(***************************************************************************)
\* the mutant: records are not validated when they are loaded
PersistenceLoadUnvalidated(f) == IF f.status # "ok" THEN <<>> ELSE f.records

\* SpotPersistence::loadSpots: the valid records of a readable version-1.0
\* file, in file order; anything else yields no spots
PersistenceLoad(f) ==
    IF f.status # "ok" THEN <<>>
    ELSE SelectSeq(f.records, validate)

\* The records written by SpotPersistence::saveSpots for a spot map:
\* std::map iterates in key order
RECURSIVE SavedRecords(_, _)
SavedRecords(spots, n) ==
    IF n > 9 THEN <<>>
    ELSE IF to_string(n) \in DOMAIN spots
         THEN <<spotToJson(spots[to_string(n)])>> \o SavedRecords(spots, n + 1)
         ELSE SavedRecords(spots, n + 1)

PersistenceSave(spots) == [status |-> "ok", records |-> SavedRecords(spots, 1)]

\* SpotPersistence::createBackup as saveSpots calls it: the file, when there
\* is one, is copied to <file_path>.backup.<YYYYmmdd_HHMMSS of t>;
\* std::filesystem::copy_file fails when that path exists already
createBackup(f, bs, t) ==
    IF f.status = "missing" THEN bs
    ELSE IF \E b \in bs : b.at = t THEN bs
    ELSE bs \cup {[at |-> t, content |-> f]}

(***************************************************************************)
(* ThermalSpotManager                                                      *)
(***************************************************************************)
\* ThermalSpotManager::loadSpots: keeps the loaded spots with id 1..5,
\* a later record replacing an earlier one with the same id
RECURSIVE LoadInto(_, _, _)
LoadInto(spots, recs, i) ==
    IF i > Len(recs) THEN spots
    ELSE LET rec == recs[i]
             key == to_string(rec.id)
         IN IF rec.id >= 1 /\ rec.id <= 5
            THEN LoadInto([k \in (DOMAIN spots) \cup {key} |->
                             IF k = key THEN from_json(rec) ELSE spots[k]],
                          recs, i + 1)
            ELSE LoadInto(spots, recs, i + 1)

\* the mutant: no id filter
RECURSIVE LoadIntoNoFilter(_, _, _)
LoadIntoNoFilter(spots, recs, i) ==
    IF i > Len(recs) THEN spots
    ELSE LET rec == recs[i]
             key == to_string(rec.id)
         IN LoadIntoNoFilter([k \in (DOMAIN spots) \cup {key} |->
                                IF k = key THEN from_json(rec) ELSE spots[k]],
                             recs, i + 1)

loadSpotsNoFilter(f) == LoadIntoNoFilter(<<>>, PersistenceLoad(f), 1)

loadSpots(f) == LoadInto(<<>>, PersistenceLoad(f), 1)

spotExists(spots, spotId) == spotId \in DOMAIN spots /\ is_ready(spots[spotId])

getActiveSpotCount(spots) == Cardinality(DOMAIN spots)

isMaxSpotsReached(spots) == getActiveSpotCount(spots) >= MAX_SPOTS

validateSpotId(spotId) == spotId \in {"1", "2", "3", "4", "5"}

\* the mutant: the row and the column 0 are not part of the image
validateCoordinatesFromOne(x, y) == x > 0 /\ x < IMAGE_WIDTH /\ y > 0 /\ y < IMAGE_HEIGHT

validateCoordinates(x, y) == x >= 0 /\ x < IMAGE_WIDTH /\ y >= 0 /\ y < IMAGE_HEIGHT

\* a spot as createSpot builds it
NewSpot(spotId, x, y) ==
    [id |-> stoi(spotId), x |-> x, y |-> y, enabled |-> TRUE, state |-> "ACTIVE"]

Put(spots, key, spot) ==
    [k \in (DOMAIN spots) \cup {key} |-> IF k = key THEN spot ELSE spots[k]]

Erase(spots, key) == [k \in (DOMAIN spots) \ {key} |-> spots[k]]

\* the mutant: a successful call that does not go on to saveSpots
DoneUnsaved(spots) == [ok |-> TRUE, spots |-> spots, save |-> FALSE]

\* The result of a registry call: what it returns, the map afterwards and
\* whether it goes on to saveSpots
Rejected(spots) == [ok |-> FALSE, spots |-> spots, save |-> FALSE]
Done(spots)     == [ok |-> TRUE, spots |-> spots, save |-> TRUE]

\* the mutant: the new spot is stored before the coordinates are validated
createSpotStoresFirst(spots, spotId, x, y) ==
    IF ~validateSpotId(spotId) THEN Rejected(spots)
    ELSE IF spotExists(spots, spotId) THEN Rejected(spots)
    ELSE IF isMaxSpotsReached(spots) THEN Rejected(spots)
    ELSE IF ~validateCoordinates(x, y)
         THEN Rejected(Put(spots, spotId, NewSpot(spotId, x, y)))
    ELSE Done(Put(spots, spotId, NewSpot(spotId, x, y)))

\* ThermalSpotManager::createSpot
createSpot(spots, spotId, x, y) ==
    IF ~validateSpotId(spotId) THEN Rejected(spots)
    ELSE IF spotExists(spots, spotId) THEN Rejected(spots)
    ELSE IF isMaxSpotsReached(spots) THEN Rejected(spots)
    ELSE IF ~validateCoordinates(x, y) THEN Rejected(spots)
    ELSE Done(Put(spots, spotId, NewSpot(spotId, x, y)))

\* ThermalSpotManager::moveSpot
moveSpot(spots, spotId, x, y) ==
    IF ~spotExists(spots, spotId) THEN Rejected(spots)
    ELSE IF ~validateCoordinates(x, y) THEN Rejected(spots)
    ELSE Done(Put(spots, spotId, [spots[spotId] EXCEPT !.x = x, !.y = y]))

\* ThermalSpotManager::deleteSpot
deleteSpot(spots, spotId) ==
    IF ~spotExists(spots, spotId) THEN Rejected(spots)
    ELSE Done(Erase(spots, spotId))

\* ThermalSpotManager::listSpots: the ids of the copies it returns
listSpots(spots) == {to_string(spots[k].id) : k \in DOMAIN spots}

(***************************************************************************)
(* Initial store files                                                     *)
(***************************************************************************)
FileRec(i, en) ==
    [id |-> i, x |-> 0, y |-> 0, enabled |-> en, cfg_ok |-> TRUE,
     status |-> IF en THEN "active" ELSE "inactive"]

\* records with ids 1..n, all enabled
PrefixFile(n) == [status |-> "ok", records |-> [i \in 1..n |-> FileRec(i, TRUE)]]

InitialFiles ==
    {[status |-> "missing", records |-> <<>>],
     [status |-> "badversion", records |-> <<FileRec(1, TRUE)>>],
     [status |-> "unparsable", records |-> <<>>]}
    \cup {PrefixFile(n) : n \in 0..MaxFileId}
    \cup {\* a disabled spot among enabled ones
          [status |-> "ok",
           records |-> <<FileRec(1, TRUE), FileRec(2, FALSE), FileRec(3, TRUE)>>],
          \* five spots, one of them disabled
          [status |-> "ok",
           records |-> <<FileRec(1, TRUE), FileRec(2, TRUE), FileRec(3, FALSE),
                         FileRec(4, TRUE), FileRec(5, TRUE)>>],
          \* an id of 0, a record that fails validation, a repeated id and a
          \* spot outside the image
          [status |-> "ok",
           records |-> <<FileRec(0, TRUE),
                         [FileRec(2, TRUE) EXCEPT !.cfg_ok = FALSE],
                         FileRec(4, TRUE),
                         [FileRec(4, TRUE) EXCEPT !.x = 319, !.y = 239],
                         [FileRec(5, TRUE) EXCEPT !.x = 400],
                         FileRec(MaxFileId, TRUE)>>]}

(***************************************************************************)
(* Registry specification                                                  *)
(***************************************************************************)
\* connect() was not called so far
NoOptions == [asked |-> "none", presented |-> "none"]

NoCall == [op |-> "idle", spotId |-> "", x |-> 0, y |-> 0]

NoEvent == [kind |-> "none", handler |-> "none", code |-> "none",
            scheduled |-> FALSE]

\* the client of a run that uses none
ConnIdle ==
    /\ impl = "none"
    /\ client_ok = FALSE
    /\ connection_state = "DISCONNECTED"
    /\ reconnect_attempts = 0
    /\ auto_reconnect_enabled_ = FALSE
    /\ initial_delay_ms_ = 1000
    /\ max_delay_ms_ = 30000
    /\ max_attempts_ = 0
    /\ outstanding = 0
    /\ link = FALSE
    /\ timers = 0
    /\ woken = 0
    /\ mid = {}
    /\ last_delay = 0
    /\ failures = 0
    /\ conn_event = NoEvent
    /\ crashed = FALSE
    /\ conn_opts = NoOptions

\* no reading so far
NoReading == [spotId |-> "", nan |-> TRUE, value |-> 0]

\* the temperature bands and readings of a run that looks at neither
SensorIdle == temp_range = <<>> /\ temperature = NoReading

RaceIdle == tel_pc = "idle" /\ tel_snapshot = {} /\ rpc_pc = NoCall

\* no publish() call so far
NoPublish == [n |-> 0, connected |-> FALSE, returned |-> FALSE, transport |-> FALSE]

\* no send_telemetry() call so far
NoTelemetry == [nan |-> FALSE, tenths |-> 0, returned |-> FALSE, called |-> FALSE]

StatIdle ==
    /\ total_errors = 0
    /\ total_messages_sent = 0
    /\ last_publish = NoPublish
    /\ last_telemetry = NoTelemetry

\* the device of a run that uses none
DevIdle ==
    /\ auto_reconnect_requested = FALSE
    /\ thermal_rpc_handler_ = FALSE
    /\ response_callback_ = FALSE
    /\ disc_pending = 0
    /\ sub_threads = 0
    /\ subscribed = FALSE
    /\ rpc = <<>>

InitSpots ==
    /\ file \in InitialFiles
    /\ spots_ = loadSpots(file)
    /\ last_call = [op |-> "construct", ok |-> TRUE]
    /\ save_failures = 0
    /\ backups = {}
    /\ now = 0
    /\ SensorIdle
    /\ RaceIdle
    /\ StatIdle
    /\ ConnIdle
    /\ DevIdle

\* ThermalSpotManager::saveSpots after a mutation: the file is rewritten
\* unless it cannot be opened for writing
Written(op, res) ==
    /\ spots_' = res.spots
    /\ last_call' = [op |-> op, ok |-> res.ok]
    /\ IF ~res.save
       THEN UNCHANGED <<file, save_failures>>
       ELSE \/ /\ file' = PersistenceSave(res.spots)
               /\ UNCHANGED save_failures
            \/ /\ save_failures < MaxSaveFailures
               /\ save_failures' = save_failures + 1
               /\ UNCHANGED file

\* ... seen without the backup files.  Nothing the program does depends on
\* them (createBackup is write-only and its failure is ignored), so the
\* specifications that are not about backups leave them out of the state.
Commit(op, res) ==
    Written(op, res) /\ UNCHANGED <<backups, now, temp_range, temperature>>

\* ... with the backup saveSpots makes before it rewrites the file
CommitAndBackup(op, res) ==
    /\ Written(op, res)
    /\ backups' = IF res.save THEN createBackup(file, backups, now) ELSE backups
    /\ UNCHANGED <<now, temp_range, temperature>>

\* what a registry call does to the map
Apply(call, spots) ==
    IF call.op = "createSpot" THEN createSpot(spots, call.spotId, call.x, call.y)
    ELSE IF call.op = "moveSpot" THEN moveSpot(spots, call.spotId, call.x, call.y)
    ELSE deleteSpot(spots, call.spotId)

CreateSpot ==
    /\ \E spotId \in CallIds, c \in CallCoords :
          Commit("createSpot", createSpot(spots_, spotId, c[1], c[2]))
    /\ UNCHANGED <<raceVars, connVars, devVars, statVars>>

MoveSpot ==
    /\ \E spotId \in CallIds, c \in CallCoords :
          Commit("moveSpot", moveSpot(spots_, spotId, c[1], c[2]))
    /\ UNCHANGED <<raceVars, connVars, devVars, statVars>>

DeleteSpot ==
    /\ \E spotId \in CallIds :
          Commit("deleteSpot", deleteSpot(spots_, spotId))
    /\ UNCHANGED <<raceVars, connVars, devVars, statVars>>

NextSpots ==
    \/ CreateSpot
    \/ MoveSpot
    \/ DeleteSpot

SpecSpots == InitSpots /\ [][NextSpots]_vars

\* C2: in every reachable state of the registry, whatever store it was
\* loaded from and whatever createSpot, moveSpot and deleteSpot calls were
\* made, getActiveSpotCount is at most 5.
C2_SpotCountAtMostFive == getActiveSpotCount(spots_) <= MAX_SPOTS

\* a full registry has just turned down one more spot
C2_FullRegistryRejectsCreate ==
    /\ getActiveSpotCount(spots_) = MAX_SPOTS
    /\ last_call = [op |-> "createSpot", ok |-> FALSE]

\* C4: a createSpot, moveSpot or deleteSpot call that returns false leaves
\* the spot map and the store file exactly as they were before the call.
C4_RejectedCallChangesNothing ==
    [][(~last_call'.ok) => (spots_' = spots_ /\ file' = file)]_vars

\* a call has been turned down by a registry that holds spots
C4_CallRejected ==
    /\ last_call.op \in {"createSpot", "moveSpot", "deleteSpot"}
    /\ ~last_call.ok
    /\ getActiveSpotCount(spots_) > 0
    /\ file.status = "ok"

(***************************************************************************)
(* The registry used by two threads (main_paho.cpp): the main thread's     *)
(* telemetry loop reads it with listSpots and getSpotTemperature while the *)
(* MQTT delivery thread runs createSpot, moveSpot and deleteSpot for RPCs.  *)
(* ThermalSpotManager declares no mutex and no member function takes a     *)
(* lock, so entering a member function has no guard.  A step pair          *)
(* Begin/End brackets the time a thread spends inside a member function.   *)
(***************************************************************************)
RaceIds    == {"1", "2"}
RaceCoords == {<<0, 0>>, <<320, 0>>}

TelReading == tel_pc \in {"listSpots", "getSpotTemperature"}
RpcWriting == rpc_pc # NoCall

InitRace ==
    /\ file = [status |-> "missing", records |-> <<>>]
    /\ spots_ = loadSpots(file)
    /\ last_call = [op |-> "construct", ok |-> TRUE]
    /\ save_failures = 0
    /\ backups = {}
    /\ now = 0
    /\ SensorIdle
    /\ RaceIdle
    /\ StatIdle
    /\ ConnIdle
    /\ DevIdle

\* main_paho.cpp:192  auto active_spots = spot_manager->listSpots();
TelBeginList ==
    /\ tel_pc = "idle"
    /\ tel_pc' = "listSpots"
    /\ UNCHANGED <<regVars, tel_snapshot, rpc_pc, connVars, devVars, statVars>>

\* listSpots returns.  Iterating the std::map while the other thread
\* inserts or erases is a data race: the copy may hold any of the ids the
\* map held before or holds after the write, or the process may die.
TelEndList ==
    /\ tel_pc = "listSpots"
    /\ IF RpcWriting
       THEN \/ /\ tel_snapshot' \in SUBSET (listSpots(spots_)
                                    \cup listSpots(Apply(rpc_pc, spots_).spots))
               /\ tel_pc' = "loop"
            \/ /\ tel_pc' = "crashed"
               /\ UNCHANGED tel_snapshot
       ELSE /\ tel_snapshot' = listSpots(spots_)
            /\ tel_pc' = "loop"
    /\ UNCHANGED <<regVars, rpc_pc, connVars, devVars, statVars>>

\* main_paho.cpp:195  spot_manager->getSpotTemperature(spot_id_str)
TelBeginRead ==
    /\ tel_pc = "loop"
    /\ tel_snapshot # {}
    /\ tel_pc' = "getSpotTemperature"
    /\ UNCHANGED <<regVars, tel_snapshot, rpc_pc, connVars, devVars, statVars>>

TelEndRead ==
    /\ tel_pc = "getSpotTemperature"
    /\ \E spotId \in tel_snapshot : tel_snapshot' = tel_snapshot \ {spotId}
    /\ \/ tel_pc' = "loop"
       \/ RpcWriting /\ tel_pc' = "crashed"
    /\ UNCHANGED <<regVars, rpc_pc, connVars, devVars, statVars>>

\* the for loop over active_spots is finished
TelLoopDone ==
    /\ tel_pc = "loop"
    /\ tel_snapshot = {}
    /\ tel_pc' = "idle"
    /\ UNCHANGED <<regVars, tel_snapshot, rpc_pc, connVars, devVars, statVars>>

\* the delivery thread enters createSpot, moveSpot or deleteSpot
RpcBegin ==
    /\ tel_pc # "crashed"
    /\ rpc_pc = NoCall
    /\ \E op \in {"createSpot", "moveSpot", "deleteSpot"},
          spotId \in RaceIds, c \in RaceCoords :
          rpc_pc' = [op |-> op, spotId |-> spotId, x |-> c[1], y |-> c[2]]
    /\ UNCHANGED <<regVars, tel_pc, tel_snapshot, connVars, devVars, statVars>>

\* ... and returns from it
RpcEnd ==
    /\ tel_pc # "crashed"
    /\ rpc_pc # NoCall
    /\ Commit(rpc_pc.op, Apply(rpc_pc, spots_))
    /\ rpc_pc' = NoCall
    /\ UNCHANGED <<tel_pc, tel_snapshot, connVars, devVars, statVars>>

NextRace ==
    \/ TelBeginList
    \/ TelEndList
    \/ TelBeginRead
    \/ TelEndRead
    \/ TelLoopDone
    \/ RpcBegin
    \/ RpcEnd

SpecRace == InitRace /\ [][NextRace]_vars

\* C3: accesses to the spot map are mutually exclusive: a read by the
\* telemetry loop (listSpots, getSpotTemperature) never overlaps a
\* createSpot, moveSpot or deleteSpot run by the RPC delivery callback.
C3_ReadersExcludeWriters == ~(TelReading /\ RpcWriting)

(***************************************************************************)
(* MQTTClient (src/mqtt/client.cpp)                                        *)
(***************************************************************************)
\* 32-bit int arithmetic: v * 2 and v * 2^e with the wrap-around of the
\* usual two's complement builds, computed without leaving the int range
Pow30 == 2^30

Double32(v) ==
    IF v >= Pow30 THEN (v - Pow30 - Pow30) * 2
    ELSE IF v < -Pow30 THEN (v + Pow30 + Pow30) * 2
    ELSE v * 2

RECURSIVE MulPow2(_, _)
MulPow2(v, e) == IF e <= 0 THEN v ELSE MulPow2(Double32(v), e - 1)

\* initial_delay_ms_ * static_cast<int>(std::pow(2, e)): pow(2, -1) = 0.5
\* converts to 0; for e > 30 the conversion yields INT_MIN on x86
IntMulPow(v, e) ==
    IF e < 0 THEN 0 ELSE MulPow2(v, IF e > 31 THEN 31 ELSE e)

Min(a, b) == IF a < b THEN a ELSE b

\* MQTTClient::calculate_reconnect_delay
calculate_reconnect_delay(c) ==
    Min(IntMulPow(c.initial_delay_ms_, c.reconnect_attempts - 1), c.max_delay_ms_)

\* the connect return codes handle_connection_failure tells apart
MQTTASYNC_BAD_USERNAME_OR_PASSWORD == "MQTTASYNC_BAD_USERNAME_OR_PASSWORD"
MQTTASYNC_NOT_AUTHORIZED == "MQTTASYNC_NOT_AUTHORIZED"
FailureCodes == {MQTTASYNC_BAD_USERNAME_OR_PASSWORD, MQTTASYNC_NOT_AUTHORIZED,
                 "SERVER_UNAVAILABLE", "TIMEOUT"}

\* client.cpp:248-249
IsAuthFailure(code) ==
    code \in {MQTTASYNC_BAD_USERNAME_OR_PASSWORD, MQTTASYNC_NOT_AUTHORIZED}

\* the client object as a record, for the member functions below
Self ==
    [connection_state |-> connection_state,
     reconnect_attempts |-> reconnect_attempts,
     auto_reconnect_enabled_ |-> auto_reconnect_enabled_,
     initial_delay_ms_ |-> initial_delay_ms_,
     max_delay_ms_ |-> max_delay_ms_,
     max_attempts_ |-> max_attempts_,
     outstanding |-> outstanding,
     link |-> link,
     timers |-> timers,
     woken |-> woken,
     last_delay |-> last_delay,
     failures |-> failures,
     handler |-> "none",
     code |-> "none",
     scheduled |-> FALSE]

\* MQTTClient::update_state
update_state(c, new_state) == [c EXCEPT !.connection_state = new_state]

\* the mutant: max_attempts = 0 no longer means "unlimited"
BudgetExhaustedAtZero(c) == c.reconnect_attempts >= c.max_attempts_

\* client.cpp:272
BudgetExhausted(c) ==
    c.max_attempts_ > 0 /\ c.reconnect_attempts >= c.max_attempts_

\* MQTTClient::attempt_reconnect up to its test (client.cpp:271-275);
\* scheduled: the thread goes on to lines 277-289, see AttemptReconnectSpawn
attempt_reconnect(c) ==
    IF ~c.auto_reconnect_enabled_ \/ BudgetExhausted(c)
    THEN update_state(c, "FAILED")
    ELSE [c EXCEPT !.scheduled = TRUE]

\* the mutant: a lost connection is final when auto-reconnect is off
handle_connection_lost_fails(c) ==
    LET d == [c EXCEPT !.handler = "handle_connection_lost",
                       !.failures = @ + 1]
    IN IF d.auto_reconnect_enabled_
       THEN attempt_reconnect(update_state(d, "RECONNECTING"))
       ELSE update_state(d, "FAILED")

\* MQTTClient::handle_connection_lost
handle_connection_lost(c) ==
    LET d == [c EXCEPT !.handler = "handle_connection_lost",
                       !.failures = @ + 1]
    IN IF d.auto_reconnect_enabled_
       THEN attempt_reconnect(update_state(d, "RECONNECTING"))
       ELSE update_state(d, "DISCONNECTED")

\* MQTTClient::handle_connection_success
handle_connection_success(c) ==
    [update_state(c, "CONNECTED") EXCEPT !.handler = "handle_connection_success",
                                         !.reconnect_attempts = 0,
                                         !.failures = 0]

\* MQTTClient::handle_connection_failure
handle_connection_failure(c, code) ==
    LET d == [c EXCEPT !.handler = "handle_connection_failure", !.code = code]
    IN IF IsAuthFailure(code)
       THEN update_state(d, "FAILED")
       ELSE LET e == [d EXCEPT !.failures = @ + 1]
            IN IF e.auto_reconnect_enabled_
                  /\ (e.max_attempts_ = 0 \/ e.reconnect_attempts < e.max_attempts_)
               THEN attempt_reconnect(update_state(e, "RECONNECTING"))
               ELSE update_state(e, "FAILED")

\* MQTTClient::connect; throws: client_->connect raises an exception
connect(c, throws) ==
    IF ~client_ok THEN c
    ELSE IF c.connection_state = "CONNECTED" THEN c
    ELSE LET d == update_state(c, "CONNECTING")
         IN IF throws
            THEN handle_connection_failure(d, "EXCEPTION")
            ELSE [d EXCEPT !.outstanding = @ + 1]

\* The threads that run member functions: the transport's callback thread,
\* the thread of the caller, and the detached reconnect threads.  The class
\* has no lock, so a thread that has passed the test of attempt_reconnect
\* may be overtaken by another thread before it increments the counter.
Threads == {"callback", "caller", "timer"}

\* the object after thread t ran the event, within the bounds of the model
BecomesPresenting(kind, t, c, opts) ==
    /\ conn_opts' = opts
    /\ t \notin mid
    /\ c.outstanding <= MaxOutstanding
    /\ c.failures <= MaxFailures
    /\ connection_state' = c.connection_state
    /\ reconnect_attempts' = c.reconnect_attempts
    /\ outstanding' = c.outstanding
    /\ link' = c.link
    /\ timers' = c.timers
    /\ woken' = c.woken
    /\ last_delay' = c.last_delay
    /\ failures' = c.failures
    /\ mid' = IF c.scheduled THEN mid \cup {t} ELSE mid
    /\ conn_event' = [kind |-> kind, handler |-> c.handler, code |-> c.code,
                      scheduled |-> c.scheduled]
    /\ UNCHANGED <<impl, client_ok, auto_reconnect_enabled_, initial_delay_ms_,
                   max_delay_ms_, max_attempts_, crashed>>

\* ... seen without the options of the connect calls.  Nothing the client
\* does depends on them (it keeps none of them), so the specifications that
\* are not about the options leave them out of the state.
Becomes(kind, t, c) == BecomesPresenting(kind, t, c, conn_opts)

DelayConfigs == {<<1000, 30000>>, <<500, 5000>>}

\* MQTTClient::MQTTClient: creating the transport client may throw, which
\* leaves client_ null and the state FAILED
InitConn ==
    /\ impl = "MQTTClient"
    /\ client_ok \in BOOLEAN
    /\ connection_state = IF client_ok THEN "DISCONNECTED" ELSE "FAILED"
    /\ reconnect_attempts = 0
    /\ auto_reconnect_enabled_ = FALSE
    /\ initial_delay_ms_ = 1000
    /\ max_delay_ms_ = 30000
    /\ max_attempts_ = 0
    /\ outstanding = 0
    /\ link = FALSE
    /\ timers = 0
    /\ woken = 0
    /\ mid = {}
    /\ last_delay = 0
    /\ failures = 0
    /\ conn_event = [NoEvent EXCEPT !.kind = "construct"]
    /\ crashed = FALSE
    /\ conn_opts = NoOptions
    /\ file = [status |-> "missing", records |-> <<>>]
    /\ spots_ = loadSpots(file)
    /\ last_call = [op |-> "construct", ok |-> TRUE]
    /\ save_failures = 0
    /\ backups = {}
    /\ now = 0
    /\ SensorIdle
    /\ RaceIdle
    /\ StatIdle
    /\ DevIdle

Running == impl = "MQTTClient" /\ ~crashed

\* MQTTClient::set_auto_reconnect.  Every caller in the repository
\* configures the client once, right after constructing it.
SetAutoReconnect ==
    /\ Running
    /\ conn_event.kind = "construct"
    /\ \E enable \in BOOLEAN, d \in DelayConfigs, n \in 0..MaxAttemptsCfg :
          /\ auto_reconnect_enabled_' = enable
          /\ initial_delay_ms_' = d[1]
          /\ max_delay_ms_' = d[2]
          /\ max_attempts_' = n
    /\ conn_event' = [NoEvent EXCEPT !.kind = "set_auto_reconnect"]
    /\ UNCHANGED <<impl, client_ok, connection_state, reconnect_attempts,
                   outstanding, link, timers, woken, mid, last_delay, failures,
                   crashed, conn_opts>>
    /\ UNCHANGED <<regVars, raceVars, devVars, statVars>>

\* the caller calls connect()
Connect ==
    /\ Running
    /\ \E throws \in BOOLEAN : Becomes("connect", "caller", connect(Self, throws))
    /\ UNCHANGED <<regVars, raceVars, devVars, statVars>>

\* attempt_reconnect, client.cpp:277-289: the thread increments the counter,
\* computes the delay and starts the detached thread that sleeps
AttemptReconnectSpawn ==
    /\ Running
    /\ timers + woken < MaxTimers
    /\ \E t \in mid : mid' = mid \ {t}
    /\ reconnect_attempts' = reconnect_attempts + 1
    /\ last_delay' = calculate_reconnect_delay(
                        [Self EXCEPT !.reconnect_attempts = @ + 1])
    /\ timers' = timers + 1
    /\ conn_event' = [NoEvent EXCEPT !.kind = "spawn",
                                     !.handler = "attempt_reconnect",
                                     !.scheduled = TRUE]
    /\ UNCHANGED <<impl, client_ok, connection_state, auto_reconnect_enabled_,
                   initial_delay_ms_, max_delay_ms_, max_attempts_, outstanding,
                   link, woken, failures, crashed, conn_opts>>
    /\ UNCHANGED <<regVars, raceVars, devVars, statVars>>

\* the detached thread wakes up and tests the state (client.cpp:283-285)
ReconnectTimerWakes ==
    /\ Running
    /\ timers > 0
    /\ Becomes("timer_wakes", "none",
               [Self EXCEPT !.timers = @ - 1,
                            !.woken = IF connection_state = "RECONNECTING"
                                      THEN @ + 1 ELSE @])
    /\ UNCHANGED <<regVars, raceVars, devVars, statVars>>

\* the detached thread calls connect() (client.cpp:287)
ReconnectTimerConnects ==
    /\ Running
    /\ woken > 0
    /\ \E throws \in BOOLEAN :
          Becomes("timer_connects", "timer",
                  connect([Self EXCEPT !.woken = @ - 1], throws))
    /\ UNCHANGED <<regVars, raceVars, devVars, statVars>>

\* The ActionListener that connect() hands to the transport is owned by a
\* local shared_ptr and destroyed when connect() returns (client.cpp:122-125),
\* so the completion callback runs on a dangling reference: it may behave as
\* if the listener were alive, do nothing, or kill the process.
Dies ==
    /\ crashed' = TRUE
    /\ conn_event' = [NoEvent EXCEPT !.kind = "crash"]
    /\ UNCHANGED <<impl, client_ok, connection_state, reconnect_attempts,
                   auto_reconnect_enabled_, initial_delay_ms_, max_delay_ms_,
                   max_attempts_, outstanding, link, timers, woken, mid,
                   last_delay, failures, conn_opts>>

\* ActionListener::on_success: the broker accepted the connect
OnSuccess ==
    /\ Running
    /\ outstanding > 0
    /\ LET c == [Self EXCEPT !.outstanding = @ - 1, !.link = TRUE]
       IN \/ Becomes("on_success", "callback", handle_connection_success(c))
          \/ Becomes("on_success", "callback", c)
          \/ Dies
    /\ UNCHANGED <<regVars, raceVars, devVars, statVars>>

\* ActionListener::on_failure: the connect failed with a return code
OnFailure ==
    /\ Running
    /\ outstanding > 0
    /\ LET c == [Self EXCEPT !.outstanding = @ - 1]
       IN \/ \E code \in FailureCodes :
                Becomes("on_failure", "callback", handle_connection_failure(c, code))
          \/ Becomes("on_failure", "callback", c)
          \/ Dies
    /\ UNCHANGED <<regVars, raceVars, devVars, statVars>>

\* CallbackHandler::connection_lost: an established connection dropped
ConnectionLost ==
    /\ Running
    /\ link
    /\ Becomes("connection_lost", "callback",
               handle_connection_lost([Self EXCEPT !.link = FALSE]))
    /\ UNCHANGED <<regVars, raceVars, devVars, statVars>>

\* MQTTClient::is_connected
is_connected == client_ok /\ link /\ connection_state = "CONNECTED"

\* MQTTClient::publish.  throws: client_->publish(msg) throws
publish(connected, throws) ==
    IF ~connected
    THEN [returned |-> FALSE, transport |-> FALSE, errors |-> 1, sent |-> 0]
    ELSE IF throws
    THEN [returned |-> FALSE, transport |-> TRUE, errors |-> 1, sent |-> 0]
    ELSE [returned |-> TRUE, transport |-> TRUE, errors |-> 0, sent |-> 1]

\* PahoCClient::publish.  accepted: MQTTAsync_sendMessage returns
\* MQTTASYNC_SUCCESS.  MQTTClientStats has no error counter and a failed
\* publish changes none of its fields.
PahoPublish(connected, accepted) ==
    IF ~connected
    THEN [returned |-> FALSE, transport |-> FALSE, errors |-> 0, sent |-> 0]
    ELSE IF ~accepted
    THEN [returned |-> FALSE, transport |-> TRUE, errors |-> 0, sent |-> 0]
    ELSE [returned |-> TRUE, transport |-> TRUE, errors |-> 0, sent |-> 1]

\* the counters and the return value after a publish() call that did r
Counted(r) ==
    /\ total_errors' = total_errors + r.errors
    /\ total_messages_sent' = total_messages_sent + r.sent
    /\ last_publish' = [n |-> last_publish.n + 1, connected |-> is_connected,
                        returned |-> r.returned, transport |-> r.transport]

\* ... when the call is not one of send_telemetry
Published(r) == Counted(r) /\ UNCHANGED last_telemetry

\* MQTTClient::disconnect: nothing to do unless connected; otherwise the
\* broker acknowledges in time or the wait times out
Disconnect ==
    /\ Running
    /\ IF ~is_connected
       THEN Becomes("disconnect", "caller", Self)
       ELSE \/ Becomes("disconnect", "caller",
                       [update_state(Self, "DISCONNECTED") EXCEPT !.link = FALSE])
            \/ Becomes("disconnect", "caller", Self)
    /\ UNCHANGED <<regVars, raceVars, devVars, statVars>>

NextConn ==
    \/ SetAutoReconnect
    \/ Connect
    \/ AttemptReconnectSpawn
    \/ ReconnectTimerWakes
    \/ ReconnectTimerConnects
    \/ OnSuccess
    \/ OnFailure
    \/ ConnectionLost
    \/ Disconnect

SpecConn == InitConn /\ [][NextConn]_vars

\* C6: after an authentication rejection has put the client in FAILED, no
\* automatic event (reconnect timer, late callback) moves it out of FAILED;
\* only connect() called by the caller does.
C6_AuthFailedLeftOnlyByCaller ==
    [][(/\ connection_state = "FAILED"
        /\ conn_event.handler = "handle_connection_failure"
        /\ IsAuthFailure(conn_event.code)
        /\ connection_state' # "FAILED")
       => conn_event'.kind = "connect"]_vars

\* C8: with auto-reconnect enabled and max_attempts = N > 0 the reconnect
\* counter never exceeds N, in any interleaving of the failure callbacks,
\* the connection-lost callbacks and the reconnect timers.
C8_CounterWithinBudget ==
    (auto_reconnect_enabled_ /\ max_attempts_ > 0)
        => reconnect_attempts <= max_attempts_

MaxDelayAttempts == 30
DelayInputs == DelayConfigs \cup {<<1, 1>>, <<30000, 30000>>}

InitDelay ==
    /\ impl = "MQTTClient"
    /\ client_ok = TRUE
    /\ connection_state = "RECONNECTING"
    /\ reconnect_attempts \in 1..MaxDelayAttempts
    /\ auto_reconnect_enabled_ = TRUE
    /\ \E d \in DelayInputs : initial_delay_ms_ = d[1] /\ max_delay_ms_ = d[2]
    /\ max_attempts_ = 0
    /\ outstanding = 0
    /\ link = FALSE
    /\ timers = 0
    /\ woken = 0
    /\ mid = {"callback"}
    /\ last_delay = 0
    /\ failures = reconnect_attempts
    /\ conn_event = [NoEvent EXCEPT !.kind = "counted"]
    /\ crashed = FALSE
    /\ conn_opts = NoOptions
    /\ file = [status |-> "missing", records |-> <<>>]
    /\ spots_ = loadSpots(file)
    /\ last_call = [op |-> "construct", ok |-> TRUE]
    /\ save_failures = 0
    /\ backups = {}
    /\ now = 0
    /\ SensorIdle
    /\ RaceIdle
    /\ StatIdle
    /\ DevIdle

\* int delay = calculate_reconnect_delay();
CalculateReconnectDelay ==
    /\ conn_event.kind = "counted"
    /\ last_delay' = calculate_reconnect_delay(Self)
    /\ conn_event' = [NoEvent EXCEPT !.kind = "delay"]
    /\ UNCHANGED <<impl, client_ok, connection_state, reconnect_attempts,
                   auto_reconnect_enabled_, initial_delay_ms_, max_delay_ms_,
                   max_attempts_, outstanding, link, timers, woken, mid,
                   failures, crashed, conn_opts>>
    /\ UNCHANGED <<regVars, raceVars, devVars, statVars>>

NextDelay == CalculateReconnectDelay

SpecDelay == InitDelay /\ [][NextDelay]_vars

\* min(1000 * 2^(k-1), 30000), which is 30000 from k = 6 on
CappedDoubling(k) == IF k > 5 THEN 30000 ELSE Min(1000 * 2^(k - 1), 30000)

\* C10: with initial_delay_ms = 1000 and max_delay_ms = 30000 the delay
\* after the k-th failure in a row is min(1000 * 2^(k-1), 30000) ms.
C10_DelayIsCappedDoubling ==
    (conn_event.kind = "delay" /\ initial_delay_ms_ = 1000 /\ max_delay_ms_ = 30000)
        => last_delay = CappedDoubling(failures)

\* C11: for every configuration with 0 < initial_delay_ms <= max_delay_ms
\* and every attempt count n >= 1, the delay d(n) that
\* calculate_reconnect_delay returns is positive, at most max_delay_ms, and
\* not greater than d(n+1).
C11_DelayBoundedAndMonotone ==
    (conn_event.kind = "delay" /\ 0 < initial_delay_ms_
                               /\ initial_delay_ms_ <= max_delay_ms_)
        => /\ 0 < last_delay
           /\ last_delay <= max_delay_ms_
           /\ last_delay <= calculate_reconnect_delay(
                                [Self EXCEPT !.reconnect_attempts = @ + 1])

(***************************************************************************)
(* ThingsBoardDevice on PahoCClient (src/thingsboard/paho_device.cpp,      *)
(* src/mqtt/paho_c_client.cpp) with the RPC parser and the thermal RPC     *)
(* handler.  The client state lives in connection_state (stats_.state),    *)
(* link (MQTTAsync_isConnected) and outstanding.                           *)
(***************************************************************************)
MaxRequests   == 2   \* RPC requests delivered in one run
MaxSubThreads == 1   \* subscription threads waiting to run at a time

DEFAULT_TIMEOUT_MS == 5000
MIN_TIMEOUT_MS == 1000
MAX_TIMEOUT_MS == 30000

\* An RPC payload: json - it parses; method - the "method" string, "" when
\* the field is missing or not a string; has_id / has_xy - params holds a
\* string spotId / integer x and y; timeout - the integer "timeout" field,
\* 0 when the field is missing
Payload(method, has_id, spotId, has_xy, x, y) ==
    [json |-> TRUE, method |-> method, has_id |-> has_id, spotId |-> spotId,
     has_xy |-> has_xy, x |-> x, y |-> y, timeout |-> 0]

Payloads ==
    {[Payload("", FALSE, "", FALSE, 0, 0) EXCEPT !.json = FALSE],
     Payload("", FALSE, "", FALSE, 0, 0),
     Payload("reboot", FALSE, "", FALSE, 0, 0),
     Payload("createSpotMeasurement", TRUE, "1", TRUE, 10, 20),
     Payload("createSpotMeasurement", TRUE, "3", TRUE, 319, 239),
     Payload("createSpotMeasurement", TRUE, "6", TRUE, 0, 0),
     Payload("createSpotMeasurement", TRUE, "1", FALSE, 0, 0),
     Payload("createSpotMeasurement", TRUE, "1", TRUE, 320, 0),
     [Payload("createSpotMeasurement", TRUE, "1", TRUE, 0, 0) EXCEPT !.timeout = 500],
     Payload("moveSpotMeasurement", TRUE, "1", TRUE, 5, 5),
     Payload("moveSpotMeasurement", TRUE, "3", TRUE, 0, 240),
     Payload("deleteSpotMeasurement", TRUE, "1", FALSE, 0, 0),
     Payload("deleteSpotMeasurement", FALSE, "", FALSE, 0, 0),
     Payload("listSpotMeasurements", FALSE, "", FALSE, 0, 0),
     Payload("getSpotTemperature", TRUE, "1", FALSE, 0, 0)}

\* RPCCommand::parseMethod
parseMethod(method_str) ==
    IF method_str \in {"createSpotMeasurement", "moveSpotMeasurement",
                       "deleteSpotMeasurement", "listSpotMeasurements",
                       "getSpotTemperature"}
    THEN method_str ELSE "unknown"

\* RPCParser::parseCommand: the command keeps the defaults of RPCCommand
\* when the payload does not parse or names no known method
parseCommand(p) ==
    IF ~p.json \/ p.method = "" \/ parseMethod(p.method) = "unknown"
    THEN [p EXCEPT !.method = "unknown", !.has_id = FALSE, !.has_xy = FALSE,
                   !.timeout = DEFAULT_TIMEOUT_MS]
    ELSE [p EXCEPT !.timeout = IF @ = 0 THEN DEFAULT_TIMEOUT_MS ELSE @]

\* RPCParser::validateTimeout
validateTimeout(timeout_ms) ==
    timeout_ms >= MIN_TIMEOUT_MS /\ timeout_ms <= MAX_TIMEOUT_MS

\* RPCParser::parseCreateSpotParams / parseMoveSpotParams: TRUE when valid
parseCreateSpotParams(cmd) ==
    /\ cmd.has_id
    /\ validateSpotId(cmd.spotId)
    /\ cmd.has_xy
    /\ validateCoordinates(cmd.x, cmd.y)

\* RPCParser::parseDeleteSpotParams: TRUE when valid
parseDeleteSpotParams(cmd) == cmd.has_id /\ validateSpotId(cmd.spotId)

\* RPCParser::validateCommand: TRUE when it returns the empty string.  The
\* switch has no case for GET_SPOT_TEMPERATURE.
validateCommand(cmd) ==
    /\ validateTimeout(cmd.timeout)
    /\ IF cmd.method \in {"createSpotMeasurement", "moveSpotMeasurement"}
       THEN parseCreateSpotParams(cmd)
       ELSE IF cmd.method = "deleteSpotMeasurement" THEN parseDeleteSpotParams(cmd)
       ELSE cmd.method = "listSpotMeasurements"

\* ThermalRPCHandler::isSupported
isSupported(method) ==
    method \in {"createSpotMeasurement", "moveSpotMeasurement",
                "deleteSpotMeasurement", "listSpotMeasurements",
                "getSpotTemperature"}

\* what a handler of ThermalRPCHandler answers and does to the registry
Answer(code, res) == [code |-> code, res |-> res]

\* ThermalRPCHandler::handleCreateSpotMeasurement
handleCreateSpotMeasurement(cmd, spots) ==
    IF ~(cmd.has_id /\ cmd.has_xy)
    THEN Answer("MISSING_PARAMETERS", Rejected(spots))
    ELSE LET res == createSpot(spots, cmd.spotId, cmd.x, cmd.y)
         IN IF res.ok THEN Answer("result", res)
            ELSE IF spotExists(spots, cmd.spotId)
                 THEN Answer("SPOT_ALREADY_EXISTS", res)
            ELSE IF cmd.x < 0 \/ cmd.x > 319 \/ cmd.y < 0 \/ cmd.y > 239
                 THEN Answer("INVALID_COORDINATES", res)
            ELSE IF getActiveSpotCount(spots) >= 5
                 THEN Answer("MAX_SPOTS_REACHED", res)
            ELSE Answer("INTERNAL_ERROR", res)

\* ThermalRPCHandler::handleMoveSpotMeasurement
handleMoveSpotMeasurement(cmd, spots) ==
    IF ~(cmd.has_id /\ cmd.has_xy)
    THEN Answer("MISSING_PARAMETERS", Rejected(spots))
    ELSE IF ~spotExists(spots, cmd.spotId)
    THEN Answer("SPOT_NOT_FOUND", Rejected(spots))
    ELSE LET res == moveSpot(spots, cmd.spotId, cmd.x, cmd.y)
         IN IF res.ok THEN Answer("result", res)
            ELSE Answer("INVALID_COORDINATES", res)

\* ThermalRPCHandler::handleDeleteSpotMeasurement
handleDeleteSpotMeasurement(cmd, spots) ==
    IF ~cmd.has_id
    THEN Answer("MISSING_PARAMETERS", Rejected(spots))
    ELSE IF ~spotExists(spots, cmd.spotId)
    THEN Answer("SPOT_NOT_FOUND", Rejected(spots))
    ELSE LET res == deleteSpot(spots, cmd.spotId)
         IN IF res.ok THEN Answer("result", res)
            ELSE Answer("INTERNAL_ERROR", res)

\* ThermalRPCHandler::handleGetSpotTemperature
handleGetSpotTemperature(cmd, spots) ==
    IF ~cmd.has_id
    THEN Answer("MISSING_PARAMETERS", Rejected(spots))
    ELSE IF ~spotExists(spots, cmd.spotId)
    THEN Answer("SPOT_NOT_FOUND", Rejected(spots))
    ELSE Answer("result", Rejected(spots))

\* ThermalRPCHandler::handleRPCCommand; the response callback is installed
\* by setThermalRPCHandler
handleRPCCommand(cmd, spots) ==
    IF cmd.method = "createSpotMeasurement" THEN handleCreateSpotMeasurement(cmd, spots)
    ELSE IF cmd.method = "moveSpotMeasurement" THEN handleMoveSpotMeasurement(cmd, spots)
    ELSE IF cmd.method = "deleteSpotMeasurement" THEN handleDeleteSpotMeasurement(cmd, spots)
    ELSE IF cmd.method = "listSpotMeasurements" THEN Answer("result", Rejected(spots))
    ELSE IF cmd.method = "getSpotTemperature" THEN handleGetSpotTemperature(cmd, spots)
    ELSE Answer("UNKNOWN_METHOD", Rejected(spots))

\* ThingsBoardDevice::extract_request_id for a topic under the RPC prefix
extract_request_id(topic_id) == topic_id

\* ThingsBoardDevice::handle_rpc_command up to the point where the response
\* is handed over: via - "none": no response is made (invalid topic),
\* "direct": send_rpc_response is called on the delivery thread, "thread":
\* the response callback starts a detached thread that calls it
handle_rpc_command_unchecked(topic_id, p, spots) ==
    LET cmd == parseCommand(p)
    IN IF extract_request_id(topic_id) = ""
       THEN [via |-> "none", code |-> "none", res |-> Rejected(spots)]
       ELSE IF thermal_rpc_handler_
       THEN LET a == handleRPCCommand(cmd, spots)
            IN [via |-> "thread", code |-> a.code, res |-> a.res]
       ELSE [via |-> "direct", code |-> "UNKNOWN_METHOD", res |-> Rejected(spots)]

handle_rpc_command(topic_id, p, spots) ==
    LET cmd == parseCommand(p)
    IN IF extract_request_id(topic_id) = ""
       THEN [via |-> "none", code |-> "none", res |-> Rejected(spots)]
       ELSE IF ~validateCommand(cmd)
       THEN [via |-> "direct", code |-> "INVALID_JSON", res |-> Rejected(spots)]
       ELSE IF thermal_rpc_handler_ /\ isSupported(cmd.method)
       THEN LET a == handleRPCCommand(cmd, spots)
            IN [via |-> "thread", code |-> a.code, res |-> a.res]
       ELSE [via |-> "direct", code |-> "UNKNOWN_METHOD", res |-> Rejected(spots)]

\* ThingsBoardDevice::send_rpc_response: what becomes of the response.
\* accepted: MQTTAsync_sendMessage returns MQTTASYNC_SUCCESS
send_rpc_response(accepted) ==
    IF ~is_connected THEN "not_connected"
    ELSE IF accepted THEN "published"
    ELSE "send_failed"

\* mqtt_client_->publish(topic, response, 1, false) inside send_rpc_response
ResponsePublished(outcome) ==
    IF outcome \in {"published", "send_failed"}
    THEN Published(PahoPublish(TRUE, outcome = "published"))
    ELSE UNCHANGED statVars

DevFiles ==
    {[status |-> "missing", records |-> <<>>],
     [status |-> "ok",
      records |-> <<FileRec(1, TRUE), FileRec(2, TRUE), FileRec(3, FALSE),
                    FileRec(4, TRUE), FileRec(5, TRUE)>>]}

\* ThingsBoardDevice::ThingsBoardDevice and ThermalSpotManager's constructor
InitDevice ==
    /\ impl = "PahoCClient"
    /\ client_ok = TRUE
    /\ connection_state = "DISCONNECTED"
    /\ reconnect_attempts = 0
    /\ auto_reconnect_enabled_ = FALSE
    /\ initial_delay_ms_ = 1000
    /\ max_delay_ms_ = 30000
    /\ max_attempts_ = 0
    /\ outstanding = 0
    /\ link = FALSE
    /\ timers = 0
    /\ woken = 0
    /\ mid = {}
    /\ last_delay = 0
    /\ failures = 0
    /\ conn_event = [NoEvent EXCEPT !.kind = "construct"]
    /\ crashed = FALSE
    /\ conn_opts = NoOptions
    /\ file \in DevFiles
    /\ spots_ = loadSpots(file)
    /\ last_call = [op |-> "construct", ok |-> TRUE]
    /\ save_failures = 0
    /\ backups = {}
    /\ now = 0
    /\ SensorIdle
    /\ RaceIdle
    /\ StatIdle
    /\ DevIdle

DevRunning == impl = "PahoCClient"

\* the client after an event of the device
DevBecomes(kind, handler, new_state, new_link, new_outstanding) ==
    /\ new_outstanding <= MaxOutstanding
    /\ connection_state' = new_state
    /\ link' = new_link
    /\ outstanding' = new_outstanding
    /\ conn_event' = [NoEvent EXCEPT !.kind = kind, !.handler = handler]
    /\ UNCHANGED <<impl, client_ok, reconnect_attempts, auto_reconnect_enabled_,
                   initial_delay_ms_, max_delay_ms_, max_attempts_, timers,
                   woken, mid, last_delay, failures, crashed, conn_opts>>

\* the caller configures the device before the first connect (main_paho.cpp)
Configuring == conn_event.kind \in {"construct", "set_auto_reconnect", "set_handler"}

\* ThingsBoardDevice::set_auto_reconnect: logs and does nothing else
DevSetAutoReconnect ==
    /\ DevRunning
    /\ Configuring
    /\ \E enable \in BOOLEAN : auto_reconnect_requested' = enable
    /\ DevBecomes("set_auto_reconnect", "none", connection_state, link, outstanding)
    /\ UNCHANGED <<thermal_rpc_handler_, response_callback_, disc_pending, sub_threads, subscribed, rpc>>
    /\ UNCHANGED <<regVars, raceVars, statVars>>

\* ThingsBoardDevice::setThermalRPCHandler
SetThermalRPCHandler ==
    /\ DevRunning
    /\ Configuring
    /\ ~thermal_rpc_handler_
    /\ thermal_rpc_handler_' = TRUE
    /\ response_callback_' = TRUE
    /\ DevBecomes("set_handler", "none", connection_state, link, outstanding)
    /\ UNCHANGED <<auto_reconnect_requested, disc_pending, sub_threads,
                   subscribed, rpc>>
    /\ UNCHANGED <<regVars, raceVars, statVars>>

\* ThingsBoardDevice::connect -> PahoCClient::connect
DevConnect ==
    /\ DevRunning
    /\ IF is_connected
       THEN DevBecomes("connect", "none", connection_state, link, outstanding)
       ELSE \/ DevBecomes("connect", "none", "CONNECTING", link, outstanding + 1)
            \/ DevBecomes("connect", "handle_connection_failure", "FAILED", link,
                          outstanding)
    /\ UNCHANGED <<regVars, raceVars, devVars, statVars>>

\* PahoCClient::on_connect_success_wrapper -> handle_connection_success ->
\* ThingsBoardDevice::on_connection_success starts the subscription thread
DevOnConnectSuccess ==
    /\ DevRunning
    /\ outstanding > 0
    /\ sub_threads < MaxSubThreads
    /\ DevBecomes("on_success", "handle_connection_success", "CONNECTED", TRUE,
                  outstanding - 1)
    /\ sub_threads' = sub_threads + 1
    /\ UNCHANGED <<auto_reconnect_requested, thermal_rpc_handler_, response_callback_, disc_pending,
                   subscribed, rpc>>
    /\ UNCHANGED <<regVars, raceVars, statVars>>

\* PahoCClient::on_connect_failure_wrapper -> handle_connection_failure
DevOnConnectFailure ==
    /\ DevRunning
    /\ outstanding > 0
    /\ DevBecomes("on_failure", "handle_connection_failure", "FAILED", link,
                  outstanding - 1)
    /\ UNCHANGED <<regVars, raceVars, devVars, statVars>>

\* PahoCClient::on_connection_lost_wrapper
DevConnectionLost ==
    /\ DevRunning
    /\ link
    /\ DevBecomes("connection_lost", "on_connection_lost_wrapper", "DISCONNECTED",
                  FALSE, outstanding)
    /\ subscribed' = FALSE
    /\ UNCHANGED <<auto_reconnect_requested, thermal_rpc_handler_, response_callback_, disc_pending,
                   sub_threads, rpc>>
    /\ UNCHANGED <<regVars, raceVars, statVars>>

\* ThingsBoardDevice::disconnect -> PahoCClient::disconnect
DevDisconnect ==
    /\ DevRunning
    /\ IF ~is_connected
       THEN /\ DevBecomes("disconnect", "none", "DISCONNECTED", link, outstanding)
            /\ UNCHANGED disc_pending
       ELSE \/ /\ DevBecomes("disconnect", "none", "DISCONNECTING", link, outstanding)
               /\ disc_pending' = 1
            \/ /\ DevBecomes("disconnect", "none", "DISCONNECTED", link, outstanding)
               /\ UNCHANGED disc_pending
    /\ UNCHANGED <<auto_reconnect_requested, thermal_rpc_handler_, response_callback_, sub_threads,
                   subscribed, rpc>>
    /\ UNCHANGED <<regVars, raceVars, statVars>>

\* PahoCClient::on_disconnect_wrapper: the transport has disconnected
DevOnDisconnect ==
    /\ DevRunning
    /\ disc_pending > 0
    /\ DevBecomes("on_disconnect", "on_disconnect_wrapper", "DISCONNECTED", FALSE,
                  outstanding)
    /\ disc_pending' = 0
    /\ subscribed' = FALSE
    /\ UNCHANGED <<auto_reconnect_requested, thermal_rpc_handler_, response_callback_, sub_threads, rpc>>
    /\ UNCHANGED <<regVars, raceVars, statVars>>

\* the detached thread of on_connection_success runs PahoCClient::subscribe
SubscriptionThread ==
    /\ DevRunning
    /\ sub_threads > 0
    /\ sub_threads' = sub_threads - 1
    /\ \/ subscribed' = (subscribed \/ is_connected)
       \/ UNCHANGED subscribed
    /\ UNCHANGED <<auto_reconnect_requested, thermal_rpc_handler_, response_callback_, disc_pending, rpc>>
    /\ UNCHANGED <<regVars, raceVars, connVars, statVars>>

\* the record of a delivered request
Request(topic_id, h, outcome) ==
    [id |-> topic_id, code |-> h.code,
     status |-> IF h.via = "thread" THEN "responding" ELSE "done",
     outcome |-> outcome,
     responses |-> IF outcome = "published" THEN 1 ELSE 0]

\* PahoCClient::on_message_arrived_wrapper ->
\* ThingsBoardDevice::on_message_received -> handle_rpc_command, for a
\* message on v1/devices/me/rpc/request/{topic_id}
RpcRequest ==
    /\ DevRunning
    /\ link /\ subscribed
    /\ Len(rpc) < MaxRequests
    /\ \E topic_id \in {"", to_string(Len(rpc) + 1)}, p \in Payloads, accepted \in BOOLEAN :
          LET h == handle_rpc_command(topic_id, p, spots_)
              outcome == IF h.via = "direct" THEN send_rpc_response(accepted)
                         ELSE "none"
          IN /\ rpc' = Append(rpc, Request(topic_id, h, outcome))
             /\ Commit(p.method, h.res)
             /\ ResponsePublished(outcome)
    /\ UNCHANGED <<auto_reconnect_requested, thermal_rpc_handler_, response_callback_, disc_pending,
                   sub_threads, subscribed>>
    /\ UNCHANGED <<raceVars, connVars>>

\* the detached response thread started by the response callback
\* (paho_device.cpp:361-373) calls send_rpc_response
ResponseThread ==
    /\ DevRunning
    /\ \E i \in DOMAIN rpc, accepted \in BOOLEAN :
          /\ rpc[i].status = "responding"
          /\ LET outcome == send_rpc_response(accepted)
             IN /\ rpc' = [rpc EXCEPT ![i].status = "done",
                                      ![i].outcome = outcome,
                                      ![i].responses =
                                          IF outcome = "published" THEN @ + 1 ELSE @]
                /\ ResponsePublished(outcome)
    /\ UNCHANGED <<auto_reconnect_requested, thermal_rpc_handler_, response_callback_, disc_pending,
                   sub_threads, subscribed>>
    /\ UNCHANGED <<regVars, raceVars, connVars>>

NextDevice ==
    \/ DevSetAutoReconnect
    \/ SetThermalRPCHandler
    \/ DevConnect
    \/ DevOnConnectSuccess
    \/ DevOnConnectFailure
    \/ DevConnectionLost
    \/ DevDisconnect
    \/ DevOnDisconnect
    \/ SubscriptionThread
    \/ RpcRequest
    \/ ResponseThread

SpecDevice == InitDevice /\ [][NextDevice]_vars

\* C1: every RPC request delivered on v1/devices/me/rpc/request/{id} gets
\* exactly one response on v1/devices/me/rpc/response/{id}, whatever the
\* payload and whatever happens to the connection between the receipt of
\* the request and the sending of the response.  Checked for the requests
\* that have a request id, once their handling has come to an end and unless
\* the transport itself refused the message.
C1_ExactlyOneResponse ==
    \A i \in DOMAIN rpc :
        (rpc[i].status = "done" /\ rpc[i].id # "" /\ rpc[i].outcome # "send_failed")
            => rpc[i].responses = 1

\* C5: once set_auto_reconnect(true) has been called on the device, a lost
\* connection and a failed connect put the client in RECONNECTING, from
\* where a new attempt is made without the caller.
C5_DeviceReconnects ==
    (auto_reconnect_requested /\ conn_event.kind \in {"connection_lost", "on_failure"})
        => connection_state = "RECONNECTING"

(***************************************************************************)
(* Both client classes: a run constructs an MQTTClient or a PahoCClient    *)
(* (inside ThingsBoardDevice) and drives its connection life cycle.  RPC    *)
(* traffic leaves the connection state alone and is left out here.         *)
(***************************************************************************)
InitClients == InitConn \/ InitDevice

NextClients ==
    \/ NextConn
    \/ DevSetAutoReconnect
    \/ SetThermalRPCHandler
    \/ DevConnect
    \/ DevOnConnectSuccess
    \/ DevOnConnectFailure
    \/ DevConnectionLost
    \/ DevDisconnect
    \/ DevOnDisconnect
    \/ SubscriptionThread

SpecClients == InitClients /\ [][NextClients]_vars

EntersFailed == connection_state # "FAILED" /\ connection_state' = "FAILED"

C12_DisconnectLeavesDisconnected ==
    conn_event.kind = "disconnect" => connection_state = "DISCONNECTED"

(***************************************************************************)
(* publish() of either client, called by the owner of the client at any    *)
(* point of the connection life cycle.                                     *)
(***************************************************************************)
MaxPublishes == 1   \* publish() calls in one run

\* MQTTClient::publish called by the owner of the client
Publish ==
    /\ Running
    /\ last_publish.n < MaxPublishes
    /\ \E throws \in BOOLEAN : Published(publish(is_connected, throws))
    /\ UNCHANGED <<regVars, raceVars, connVars, devVars>>

\* PahoCClient::publish called by the owner of the client
DevPublish ==
    /\ DevRunning
    /\ last_publish.n < MaxPublishes
    /\ \E accepted \in BOOLEAN : Published(PahoPublish(is_connected, accepted))
    /\ UNCHANGED <<regVars, raceVars, connVars, devVars>>

NextPublish ==
    \/ NextClients
    \/ Publish
    \/ DevPublish

SpecPublish == InitClients /\ [][NextPublish]_vars

\* C13: publish() called while the client is not connected returns false
\* without calling the transport, adds exactly one to the error counter and
\* leaves the connection state and the messages-sent counter unchanged.
C13_PublishWhileNotConnected ==
    [][(last_publish'.n = last_publish.n + 1 /\ ~last_publish'.connected)
       => /\ ~last_publish'.returned
          /\ ~last_publish'.transport
          /\ total_errors' = total_errors + 1
          /\ connection_state' = connection_state
          /\ total_messages_sent' = total_messages_sent]_vars

(***************************************************************************)
(* The RPC path request by request: the device is configured, connects     *)
(* and subscribes, and every request delivered on                          *)
(* v1/devices/me/rpc/request/{id} is recorded with its payload, the way it *)
(* was handled and whether the time from its receipt to the sending of     *)
(* its response exceeded the command's timeout.                            *)
(***************************************************************************)
MaxObserved == 1   \* requests delivered in one run

RpcPayloads ==
    Payloads \cup
    {Payload("createSpotMeasurement", FALSE, "", TRUE, 10, 10),
     Payload("moveSpotMeasurement", TRUE, "9", TRUE, 10, 10),
     Payload("moveSpotMeasurement", TRUE, "2", TRUE, 10, 10)}

\* thermal_spots.json when the device starts
RpcFiles ==
    DevFiles \cup
    {PrefixFile(5),
     [status |-> "ok", records |-> <<FileRec(1, FALSE), FileRec(2, TRUE)>>]}

InitRpc ==
    /\ impl = "PahoCClient"
    /\ client_ok = TRUE
    /\ connection_state = "DISCONNECTED"
    /\ reconnect_attempts = 0
    /\ auto_reconnect_enabled_ = FALSE
    /\ initial_delay_ms_ = 1000
    /\ max_delay_ms_ = 30000
    /\ max_attempts_ = 0
    /\ outstanding = 0
    /\ link = FALSE
    /\ timers = 0
    /\ woken = 0
    /\ mid = {}
    /\ last_delay = 0
    /\ failures = 0
    /\ conn_event = [NoEvent EXCEPT !.kind = "construct"]
    /\ crashed = FALSE
    /\ conn_opts = NoOptions
    /\ file \in RpcFiles
    /\ spots_ = loadSpots(file)
    /\ last_call = [op |-> "construct", ok |-> TRUE]
    /\ save_failures = 0
    /\ backups = {}
    /\ now = 0
    /\ SensorIdle
    /\ RaceIdle
    /\ StatIdle
    /\ DevIdle

\* PahoCClient::on_message_arrived_wrapper ->
\* ThingsBoardDevice::on_message_received -> handle_rpc_command, for a
\* message on v1/devices/me/rpc/request/{Len(rpc) + 1}.  late: more than
\* the command's timeoutMs pass between receivedAt and the sending of the
\* response by the response thread; a response made inside the callback is
\* recorded as in time.
OnMessageReceived ==
    /\ DevRunning
    /\ link /\ subscribed
    /\ Len(rpc) < MaxObserved
    /\ \E p \in RpcPayloads, accepted \in BOOLEAN, late \in BOOLEAN :
          LET topic_id == to_string(Len(rpc) + 1)
              h == handle_rpc_command(topic_id, p, spots_)
              outcome == IF h.via = "direct" THEN send_rpc_response(accepted)
                         ELSE "none"
          IN /\ h.via # "thread" => ~late
             /\ h.via = "thread" => accepted
             /\ rpc' = Append(rpc, Request(topic_id, h, outcome) @@
                                   [payload |-> p, via |-> h.via, late |-> late])
             /\ Commit(p.method, h.res)
             /\ ResponsePublished(outcome)
    /\ UNCHANGED <<auto_reconnect_requested, thermal_rpc_handler_, response_callback_, disc_pending,
                   sub_threads, subscribed>>
    /\ UNCHANGED <<raceVars, connVars>>

NextRpc ==
    \/ SetThermalRPCHandler
    \/ DevConnect
    \/ DevOnConnectSuccess
    \/ SubscriptionThread
    \/ DevConnectionLost
    \/ OnMessageReceived
    \/ ResponseThread

SpecRpc == InitRpc /\ [][NextRpc]_vars

\* the request delivered by the step, if the step delivers one
Delivered == Len(rpc') = Len(rpc) + 1
TheRequest == rpc'[Len(rpc')]

\* the request is a well-formed create/move/delete request but for what the
\* predicates below single out
ValidTimeout(p) == validateTimeout(parseCommand(p).timeout)

\* C14: when more than the command's timeout has passed between the receipt
\* of a request and the sending of its response, the response that is
\* published carries the error code TIMEOUT and not the handler's result.
\* Checked for the commands that were handed to the handler.
C14_LateRequestAnsweredTimeout ==
    \A i \in DOMAIN rpc :
        (rpc[i].via = "thread" /\ rpc[i].late /\ rpc[i].responses > 0)
            => rpc[i].code = "TIMEOUT"

\* C15: a request whose command is in status ERROR after parseCommand
\* (malformed JSON, missing or non-string method, unrecognized method name:
\* the method is UNKNOWN) is never handed to
\* ThermalRPCHandler::handleRPCCommand and changes neither the registry nor
\* the persisted store.
C15_UnknownNeverDispatched ==
    [][(Delivered /\ parseCommand(TheRequest.payload).method = "unknown")
       => /\ TheRequest.via # "thread"
          /\ spots_' = spots_
          /\ file' = file]_vars

\* an unrecognized method name has been answered by a device that has a
\* thermal RPC handler and a non-empty registry
C15_UnknownMethodAnswered ==
    /\ thermal_rpc_handler_
    /\ DOMAIN spots_ # {}
    /\ \E i \in DOMAIN rpc :
          /\ rpc[i].payload.json
          /\ rpc[i].payload.method = "reboot"
          /\ rpc[i].via = "direct"
          /\ rpc[i].responses = 1

\* C16: the response to a payload that is not well-formed JSON carries
\* INVALID_JSON, and the response to well-formed JSON whose method name is
\* not one of the five supported names carries UNKNOWN_METHOD.
C16_ProtocolErrorCodes ==
    \A i \in DOMAIN rpc :
        rpc[i].responses > 0 =>
            /\ ~rpc[i].payload.json => rpc[i].code = "INVALID_JSON"
            /\ (/\ rpc[i].payload.json
                /\ rpc[i].payload.method # ""
                /\ parseMethod(rpc[i].payload.method) = "unknown")
               => rpc[i].code = "UNKNOWN_METHOD"

\* C17: the response to a create/move/delete request with a valid timeout
\* carries INVALID_COORDINATES when integer x,y are outside the image,
\* MISSING_PARAMETERS when spotId, x or y is missing or wrongly typed, and
\* INVALID_SPOT_ID when the string spotId is none of "1".."5".
C17_ValidationErrorCodes ==
    \A i \in DOMAIN rpc :
        LET p == rpc[i].payload
            xy == p.method \in {"createSpotMeasurement", "moveSpotMeasurement"}
        IN (/\ rpc[i].responses > 0
            /\ thermal_rpc_handler_
            /\ p.json /\ ValidTimeout(p)
            /\ p.method \in {"createSpotMeasurement", "moveSpotMeasurement",
                              "deleteSpotMeasurement"})
           => /\ (xy /\ p.has_id /\ validateSpotId(p.spotId) /\ p.has_xy
                     /\ ~validateCoordinates(p.x, p.y))
                 => rpc[i].code = "INVALID_COORDINATES"
              /\ (~p.has_id \/ (xy /\ ~p.has_xy))
                 => rpc[i].code = "MISSING_PARAMETERS"
              /\ (p.has_id /\ ~validateSpotId(p.spotId) /\ (xy => p.has_xy))
                 => rpc[i].code = "INVALID_SPOT_ID"

\* C18: a moveSpotMeasurement request with in-bounds x,y and a spotId the
\* registry does not hold is answered with SPOT_NOT_FOUND.
C18_MoveAbsentSpotNotFound ==
    [][(/\ Delivered
        /\ thermal_rpc_handler_
        /\ TheRequest.payload.method = "moveSpotMeasurement"
        /\ ValidTimeout(TheRequest.payload)
        /\ TheRequest.payload.has_id /\ TheRequest.payload.has_xy
        /\ validateCoordinates(TheRequest.payload.x, TheRequest.payload.y)
        /\ TheRequest.payload.spotId \notin DOMAIN spots_
        /\ TheRequest.via = "direct" => TheRequest.responses = 1)
       => TheRequest.code = "SPOT_NOT_FOUND"]_vars

\* C19: with 5 spots in the registry, a createSpotMeasurement request for an
\* id the registry does not hold, with in-bounds coordinates, is answered
\* with MAX_SPOTS_REACHED and leaves the registry as it is.
C19_SixthSpotMaxSpotsReached ==
    [][(/\ Delivered
        /\ thermal_rpc_handler_
        /\ getActiveSpotCount(spots_) = MAX_SPOTS
        /\ TheRequest.payload.method = "createSpotMeasurement"
        /\ ValidTimeout(TheRequest.payload)
        /\ TheRequest.payload.has_id /\ TheRequest.payload.has_xy
        /\ validateCoordinates(TheRequest.payload.x, TheRequest.payload.y)
        /\ TheRequest.payload.spotId \notin DOMAIN spots_
        /\ TheRequest.via = "direct" => TheRequest.responses = 1)
       => (TheRequest.code = "MAX_SPOTS_REACHED" /\ spots_' = spots_)]_vars

\* C20: a createSpotMeasurement request, valid in itself, for a spotId the
\* registry already holds is answered with SPOT_ALREADY_EXISTS and leaves
\* the spot that is held as it is.
C20_DuplicateCreateRejected ==
    [][(/\ Delivered
        /\ thermal_rpc_handler_
        /\ TheRequest.payload.method = "createSpotMeasurement"
        /\ ValidTimeout(TheRequest.payload)
        /\ TheRequest.payload.has_id /\ TheRequest.payload.has_xy
        /\ validateCoordinates(TheRequest.payload.x, TheRequest.payload.y)
        /\ TheRequest.payload.spotId \in DOMAIN spots_)
       => /\ TheRequest.code = "SPOT_ALREADY_EXISTS"
          /\ spots_'[TheRequest.payload.spotId] = spots_[TheRequest.payload.spotId]]_vars

\* C21: a getSpotTemperature request that carries a string spotId passes
\* validateCommand and is handed to the handler; when the spot exists and
\* is ready the answer is a success result.
C21_GetSpotTemperatureDispatched ==
    [][(/\ Delivered
        /\ thermal_rpc_handler_
        /\ TheRequest.payload.method = "getSpotTemperature"
        /\ TheRequest.payload.has_id
        /\ ValidTimeout(TheRequest.payload))
       => /\ TheRequest.via = "thread"
          /\ spotExists(spots_, TheRequest.payload.spotId)
                => TheRequest.code = "result"]_vars

\* C22: no response is published from inside the delivery callback: a
\* request answered by handle_rpc_command itself (not through the response
\* thread) never reaches mqtt_client_->publish.
C22_NoPublishOnDeliveryThread ==
    \A i \in DOMAIN rpc :
        rpc[i].via = "direct" => rpc[i].outcome \notin {"published", "send_failed"}

(***************************************************************************)
(* The store after a mutation                                              *)
(***************************************************************************)
\* the ids and coordinates a registry holds
Placement(spots) == [k \in DOMAIN spots |-> <<spots[k].id, spots[k].x, spots[k].y>>]

\* the step, one of the registry's calls, is a createSpot, moveSpot or
\* deleteSpot that returns true
Mutated ==
    /\ last_call'.op \in {"createSpot", "moveSpot", "deleteSpot"}
    /\ last_call'.ok

SpotStates == {"INACTIVE", "ACTIVE", "READING", "ERROR"}

\* the valid spot sets with ids "1" and "2"
StoreSets ==
    {S \in UNION {[D -> [id : 1..2, x : {0, 319}, y : {0}, enabled : BOOLEAN,
                         state : SpotStates]] : D \in SUBSET {"1", "2"}} :
        \A k \in DOMAIN S : S[k].id = stoi(k)}

InitStore ==
    /\ spots_ \in StoreSets
    /\ file = [status |-> "missing", records |-> <<>>]
    /\ last_call = [op |-> "construct", ok |-> TRUE]
    /\ save_failures = 0
    /\ backups = {}
    /\ now = 0
    /\ SensorIdle
    /\ RaceIdle
    /\ StatIdle
    /\ ConnIdle
    /\ DevIdle

\* SpotPersistence::saveSpots on the spots held
SaveSpots ==
    /\ backups' = createBackup(file, backups, now)
    /\ \/ /\ file' = PersistenceSave(spots_)
          /\ last_call' = [op |-> "saveSpots", ok |-> TRUE]
          /\ UNCHANGED save_failures
       \/ /\ save_failures < MaxSaveFailures
          /\ save_failures' = save_failures + 1
          /\ last_call' = [op |-> "saveSpots", ok |-> FALSE]
          /\ UNCHANGED file
    /\ UNCHANGED <<spots_, now, temp_range, temperature>>
    /\ UNCHANGED <<raceVars, connVars, devVars, statVars>>

\* the spots are built from the file again (SpotPersistence::loadSpots as
\* ThermalSpotManager::loadSpots uses it)
LoadSpots ==
    /\ spots_' = loadSpots(file)
    /\ last_call' = [op |-> "loadSpots", ok |-> TRUE]
    /\ UNCHANGED <<file, save_failures, backups, now, temp_range, temperature>>
    /\ UNCHANGED <<raceVars, connVars, devVars, statVars>>

NextStore == SaveSpots \/ LoadSpots

SpecStore == InitStore /\ [][NextStore]_vars

\* C24: saving a valid spot set, loading the saved file and saving the
\* loaded set again writes the same spot records as the first save (id, x,
\* y, configuration, enabled flag and status; timestamps aside).
C24_SaveLoadSaveIsIdempotent ==
    last_call = [op |-> "saveSpots", ok |-> TRUE]
        => PersistenceSave(loadSpots(file)).records = file.records

(***************************************************************************)
(* The store file and its backups under a run of mutations.  The backup    *)
(* path carries the time of the save to the second                         *)
(* (generateBackupPath), so the wall clock is part of the state.           *)
(***************************************************************************)
MaxClock == 1   \* seconds that pass in one run

\* a second passes
Tick ==
    /\ now < MaxClock
    /\ now' = now + 1
    /\ UNCHANGED <<spots_, file, last_call, save_failures, backups,
                   temp_range, temperature>>
    /\ UNCHANGED <<raceVars, connVars, devVars, statVars>>

\* a createSpot, moveSpot or deleteSpot call and the saveSpots it ends with
Mutation ==
    /\ \E op \in {"createSpot", "moveSpot", "deleteSpot"},
          spotId \in RaceIds, c \in RaceCoords :
          CommitAndBackup(op, Apply([op |-> op, spotId |-> spotId,
                                     x |-> c[1], y |-> c[2]], spots_))
    /\ UNCHANGED <<raceVars, connVars, devVars, statVars>>

NextBackup == Mutation \/ Tick

SpecBackup == InitRace /\ [][NextBackup]_vars

\* C25: whenever saveSpots overwrites an existing store file, a backup
\* holding the content the file had just before is among the backup files
\* afterwards, also when the saves follow each other within a second.
C25_BackupBeforeEveryOverwrite ==
    [][(/\ Mutation
        /\ last_call'.ok
        /\ file.status # "missing"
        /\ save_failures' = save_failures)
       => \E b \in backups' : b.content = file]_vars

\* the records of a store file that pass MeasurementSpot::validate and carry
\* an id of 1..5
ValidRecords(f) ==
    IF f.status # "ok" THEN {}
    ELSE {f.records[i] : i \in {j \in DOMAIN f.records :
                                   /\ validate(f.records[j])
                                   /\ f.records[j].id \in 1..5}}

\* C26: after construction the registry is empty when the store file is
\* missing, has another schema version or does not parse; otherwise it
\* holds the ids of the valid records with ids 1..5, each spot built from
\* such a record, and no record that fails validation.
C26_ConstructionKeepsValidRecords ==
    last_call.op = "construct" =>
        /\ file.status # "ok" => DOMAIN spots_ = {}
        /\ DOMAIN spots_ = {to_string(r.id) : r \in ValidRecords(file)}
        /\ \A k \in DOMAIN spots_ :
              \E r \in ValidRecords(file) :
                  to_string(r.id) = k /\ spots_[k] = from_json(r)

\* a registry constructed on a file that holds valid and invalid records
C26_LoadedPartOfTheFile ==
    /\ last_call.op = "construct"
    /\ file.status = "ok"
    /\ \E i \in DOMAIN file.records : ~validate(file.records[i])
    /\ \E i \in DOMAIN file.records : file.records[i].id > 5
    /\ DOMAIN spots_ = {"4", "5"}

\* C27: when deleteSpot has just succeeded on a registry of 5 spots (4 are
\* left), createSpot with in-bounds coordinates succeeds for every new id
\* that is not among the remaining four, "6" included, and the registry
\* holds 5 spots again.
C27_CreateAfterDeleteFromFullRegistry ==
    (/\ last_call = [op |-> "deleteSpot", ok |-> TRUE]
     /\ getActiveSpotCount(spots_) = MAX_SPOTS - 1)
    => \A spotId \in CallIds \ DOMAIN spots_, c \in CallCoords :
          validateCoordinates(c[1], c[2])
          => LET res == createSpot(spots_, spotId, c[1], c[2])
             IN res.ok /\ getActiveSpotCount(res.spots) = MAX_SPOTS

\* C28: whenever deleteSpot(id) has succeeded, createSpot(id, x, y) called on
\* the registry it leaves succeeds for every in-bounds (x, y), and the
\* registry then holds id at (x, y).
C28_DeletedIdCanBeCreatedAgain ==
    [][(last_call'.op = "deleteSpot" /\ last_call'.ok)
       => \A spotId \in DOMAIN spots_ \ DOMAIN spots_', c \in CallCoords :
             (c[1] \in 0..(IMAGE_WIDTH - 1) /\ c[2] \in 0..(IMAGE_HEIGHT - 1))
             => LET res == createSpot(spots_', spotId, c[1], c[2])
                IN /\ res.ok
                   /\ spotId \in DOMAIN res.spots
                   /\ res.spots[spotId].id = stoi(spotId)
                   /\ res.spots[spotId].x = c[1]
                   /\ res.spots[spotId].y = c[2]]_vars

\* a spot of a full registry has been deleted and can be created again at
\* the far corner of the image
C28_SpotDeletedFromFullRegistry ==
    /\ last_call = [op |-> "deleteSpot", ok |-> TRUE]
    /\ getActiveSpotCount(spots_) = MAX_SPOTS - 1
    /\ "3" \notin DOMAIN spots_
    /\ createSpot(spots_, "3", 319, 239).ok

(***************************************************************************)
(* The temperature of a spot.  Temperatures are counted in units of 2^-25  *)
(* degree, in which every float between -0.5 and 64 is a whole number:     *)
(* floats in [16, 32) are the multiples of 64, floats in [32, 64) the      *)
(* multiples of 128.  min_temp and max_temp are doubles and hold           *)
(* base - 0.5 and base + 0.5 exactly.                                      *)
(***************************************************************************)
TempUnit == 33554432

MIN_BASE_TEMP == 20 * TempUnit
MAX_BASE_TEMP == 50 * TempUnit
VARIATION_RANGE == TempUnit \div 2

TempCoords == {<<160, 120>>, <<0, 0>>, <<81, 108>>, <<77, 113>>, <<320, 0>>}

\* CoordinateBasedTemperatureSource::getBaseTemperature: the float
\* 20 + 30 * min(1, sqrt(dx * dx + dy * dy) / 200) with dx = x - 160 and
\* dy = y - 120, every operation rounded to float; 20 at the centre, 50 at
\* the corner (0, 0), 31.985929489135742 at (81, 108) and
\* 32.494197845458984 at (77, 113)
getBaseTemperature(x, y) ==
    IF ~validateCoordinates(x, y) THEN MIN_BASE_TEMP
    ELSE IF <<x, y>> = <<160, 120>> THEN MIN_BASE_TEMP
    ELSE IF <<x, y>> = <<0, 0>> THEN MAX_BASE_TEMP
    ELSE IF <<x, y>> = <<81, 108>> THEN 1073269696
    ELSE 1090324352

\* The values of std::uniform_real_distribution<float>(-0.5f, 0.5f): floats
\* of the half-open interval [-0.5, 0.5); the two ends, the values next to
\* them and the values around 0
Variations ==
    {-VARIATION_RANGE, -VARIATION_RANGE + 1, -1, 0, 1, VARIATION_RANGE - 1}

\* a value between 16 and 64 rounded to float: to the nearest float, a tie
\* to the one with the even significand
RoundToFloat(v) ==
    LET ulp == IF v < 32 * TempUnit THEN 64 ELSE 128
        lo  == (v \div ulp) * ulp
        r   == v - lo
    IN IF 2 * r < ulp THEN lo
       ELSE IF 2 * r > ulp THEN lo + ulp
       ELSE IF (lo \div ulp) % 2 = 0 THEN lo
       ELSE lo + ulp

\* CoordinateBasedTemperatureSource::getTemperature for a variation drawn
\* from the distribution
getTemperature(x, y, variation) ==
    IF ~validateCoordinates(x, y) THEN MIN_BASE_TEMP
    ELSE RoundToFloat(getBaseTemperature(x, y) + variation)

\* the mutant: a band of a quarter of a degree to either side
configureSpotWithQuarterDegree(x, y) ==
    [min_temp |-> getBaseTemperature(x, y) - TempUnit \div 4,
     max_temp |-> getBaseTemperature(x, y) + TempUnit \div 4]

\* ThermalSpotManager::configureSpotWithTemperatureSource (the source is
\* always ready)
configureSpotWithTemperatureSource(x, y) ==
    [min_temp |-> getBaseTemperature(x, y) - TempUnit \div 2,
     max_temp |-> getBaseTemperature(x, y) + TempUnit \div 2]

\* ThermalSpotManager::getSpotTemperature
getSpotTemperature(spots, spotId, variation) ==
    IF ~spotExists(spots, spotId)
    THEN [spotId |-> spotId, nan |-> TRUE, value |-> 0]
    ELSE [spotId |-> spotId, nan |-> FALSE,
          value |-> getTemperature(spots[spotId].x, spots[spotId].y, variation)]

\* createSpot and moveSpot with the band they configure
ConfigureSpot ==
    /\ \E op \in {"createSpot", "moveSpot"}, spotId \in RaceIds, c \in TempCoords :
          LET res == Apply([op |-> op, spotId |-> spotId, x |-> c[1], y |-> c[2]],
                           spots_)
          IN /\ Written(op, res)
             /\ temp_range' =
                   IF res.ok
                   THEN Put(temp_range, spotId,
                            configureSpotWithTemperatureSource(c[1], c[2]))
                   ELSE temp_range
    /\ UNCHANGED <<backups, now, temperature>>
    /\ UNCHANGED <<raceVars, connVars, devVars, statVars>>

RemoveSpot ==
    /\ \E spotId \in RaceIds :
          LET res == deleteSpot(spots_, spotId)
          IN /\ Written("deleteSpot", res)
             /\ temp_range' = IF res.ok THEN Erase(temp_range, spotId)
                              ELSE temp_range
    /\ UNCHANGED <<backups, now, temperature>>
    /\ UNCHANGED <<raceVars, connVars, devVars, statVars>>

GetSpotTemperature ==
    /\ \E spotId \in RaceIds, variation \in Variations :
          temperature' = getSpotTemperature(spots_, spotId, variation)
    /\ UNCHANGED <<spots_, file, last_call, save_failures, backups, now,
                   temp_range>>
    /\ UNCHANGED <<raceVars, connVars, devVars, statVars>>

NextSensor ==
    \/ ConfigureSpot
    \/ RemoveSpot
    \/ GetSpotTemperature

SpecSensor == InitRace /\ [][NextSensor]_vars

\* C29: a getSpotTemperature call that directly follows a successful
\* createSpot returns, for every spot the registry holds (the spot just
\* created among them), a value within that spot's band
\* [min_temp, max_temp], which is the base temperature at the spot's
\* coordinates minus and plus half a degree.
C29_ReadingWithinBand ==
    [][(GetSpotTemperature /\ last_call = [op |-> "createSpot", ok |-> TRUE])
       => \A spotId \in DOMAIN spots_ :
             temperature'.spotId = spotId
             => /\ ~temperature'.nan
                /\ temp_range[spotId].min_temp =
                      getBaseTemperature(spots_[spotId].x, spots_[spotId].y)
                      - VARIATION_RANGE
                /\ temp_range[spotId].max_temp =
                      getBaseTemperature(spots_[spotId].x, spots_[spotId].y)
                      + VARIATION_RANGE
                /\ temperature'.value >= temp_range[spotId].min_temp
                /\ temperature'.value <= temp_range[spotId].max_temp]_vars

\* a spot created at (81, 108), where base + 0.5 is no float, has been read
\* in the upper quarter of its band
C29_ReadNearTheTopOfTheBand ==
    /\ last_call = [op |-> "createSpot", ok |-> TRUE]
    /\ ~temperature.nan
    /\ temperature.spotId \in DOMAIN spots_
    /\ spots_[temperature.spotId].x = 81
    /\ temperature.value > temp_range[temperature.spotId].max_temp - TempUnit \div 4

(***************************************************************************)
(* Telemetry of the device.  A temperature is a double: not a number, or a *)
(* number, which the model counts in tenths of a degree.                   *)
(***************************************************************************)
Temperatures ==
    {[nan |-> TRUE, tenths |-> 0]}
    \cup {[nan |-> FALSE, tenths |-> t] : t \in {-1001, -1000, 215, 5000, 5001}}

\* the mutant: the two ends of the range are not valid
validate_temperature_open(temp) ==
    /\ ~temp.nan
    /\ temp.tenths > -1000
    /\ temp.tenths < 5000

\* ThingsBoardDevice::validate_temperature; every comparison with a NaN is
\* false
validate_temperature(temp) ==
    /\ ~temp.nan
    /\ temp.tenths >= -1000
    /\ temp.tenths <= 5000

\* ThingsBoardDevice::send_telemetry, either overload.  connected:
\* is_connected() at the first check; publish makes its own check.
send_telemetry(connected, temp) ==
    IF ~connected THEN "not_connected"
    ELSE IF ~validate_temperature(temp) THEN "skipped"
    ELSE "publish"

SendTelemetry ==
    /\ DevRunning
    /\ last_publish.n < MaxPublishes
    /\ \E temp \in Temperatures, accepted \in BOOLEAN :
          IF send_telemetry(is_connected, temp) = "publish"
          THEN LET r == PahoPublish(is_connected, accepted)
               IN /\ Counted(r)
                  /\ last_telemetry' = temp @@
                        [returned |-> r.returned, called |-> TRUE]
          ELSE /\ last_telemetry' = temp @@
                     [returned |-> FALSE, called |-> TRUE]
               /\ UNCHANGED <<total_errors, total_messages_sent, last_publish>>
    /\ UNCHANGED <<regVars, raceVars, connVars, devVars>>

NextTelemetry ==
    \/ DevSetAutoReconnect
    \/ DevConnect
    \/ DevOnConnectSuccess
    \/ DevOnConnectFailure
    \/ DevConnectionLost
    \/ DevDisconnect
    \/ DevOnDisconnect
    \/ SubscriptionThread
    \/ SendTelemetry

SpecTelemetry == InitDevice /\ [][NextTelemetry]_vars

\* C30: a send_telemetry call with a temperature outside [-100, 500]
\* returns false and calls publish not at all, so that no message goes out
\* for it; a call with -100 or with 500 made while connected goes on to
\* publish.
C30_OnlyValidTemperaturesPublished ==
    [][SendTelemetry
       => /\ (last_telemetry'.nan \/ last_telemetry'.tenths < -1000
              \/ last_telemetry'.tenths > 5000)
             => /\ ~last_telemetry'.returned
                /\ last_publish' = last_publish
                /\ total_messages_sent' = total_messages_sent
          /\ (~last_telemetry'.nan /\ last_telemetry'.tenths \in {-1000, 5000}
              /\ is_connected)
             => /\ last_publish'.n = last_publish.n + 1
                /\ last_publish'.transport
                /\ last_telemetry'.returned = last_publish'.returned]_vars

\* the connected device has turned down a reading just above 500 degrees
C30_AboveRangeSkipped ==
    /\ last_telemetry = [nan |-> FALSE, tenths |-> 5001, returned |-> FALSE,
                         called |-> TRUE]
    /\ is_connected
    /\ last_publish = NoPublish

\* C31: a send_telemetry call with a valid temperature made while the
\* device is not connected returns false, and the error counter of the
\* device's connection is strictly greater after the call than before.
C31_TelemetryWhileNotConnectedCounted ==
    [][(SendTelemetry /\ ~is_connected /\ validate_temperature(last_telemetry'))
       => /\ ~last_telemetry'.returned
          /\ total_errors' > total_errors]_vars

\* C32: at any time at most one transport connect is outstanding (a
\* connect() call made in CONNECTING or RECONNECTING starts no second one)
\* and at most one reconnect timer is pending.
C32_OneAttemptOutstanding ==
    /\ outstanding <= 1
    /\ timers + woken <= 1

\* C33: once the caller's disconnect() has returned in state CONNECTING or
\* RECONNECTING, the next thing to happen is neither a connect attempt of a
\* reconnect timer nor the state becoming CONNECTED; only a connect() call
\* of the caller starts a transport connect again.
C33_DisconnectCancelsAttempts ==
    [][(/\ conn_event.kind = "disconnect"
        /\ connection_state \in {"CONNECTING", "RECONNECTING"})
       => /\ connection_state' # "CONNECTED"
          /\ conn_event'.kind # "timer_connects"]_vars

\* MQTTClient with its reconnect threads and the transport's callbacks
\* scheduled fairly.  The broker turns down at most MaxFailures connects in
\* a row and accepts from then on.
SpecConnFair ==
    /\ InitConn
    /\ [][NextConn]_vars
    /\ WF_vars(AttemptReconnectSpawn)
    /\ WF_vars(ReconnectTimerWakes)
    /\ WF_vars(ReconnectTimerConnects)
    /\ WF_vars(OnSuccess)

\* C34: with auto-reconnect enabled and unlimited attempts, a transport
\* drop of an established connection (nothing else in flight) that has put
\* the client in RECONNECTING is eventually followed by the state
\* CONNECTED.
C34_ReconnectsEventually ==
    (/\ conn_event.kind = "connection_lost"
     /\ connection_state = "RECONNECTING"
     /\ auto_reconnect_enabled_
     /\ max_attempts_ = 0
     /\ outstanding = 0
     /\ timers = 0
     /\ woken = 0
     /\ mid = {"callback"})
    ~> (connection_state = "CONNECTED")

(***************************************************************************)
(* The options of the connect calls: user name, password, keep-alive       *)
(* interval and clean-session flag.                                        *)
(***************************************************************************)
\* connect() without arguments (client.h:100-103)
DefaultOptions ==
    [username |-> "", password |-> "", keep_alive_seconds |-> 60,
     clean_session |-> TRUE]

\* ThingsBoardDevice::connect: the access token as the user name
TokenOptions == [DefaultOptions EXCEPT !.username = "token"]

ConnectOptions == {DefaultOptions, TokenOptions}

\* what MQTTClient::connect puts into mqtt::connect_options: the password
\* only together with a user name
conn_opts_of(args) ==
    IF args.username = "" THEN [args EXCEPT !.password = ""] ELSE args

\* MQTTClient::connect called by the owner of the client with its arguments
ConnectWith ==
    /\ Running
    /\ \E args \in ConnectOptions, throws \in BOOLEAN :
          BecomesPresenting("connect", "caller", connect(Self, throws),
                            IF client_ok /\ connection_state # "CONNECTED"
                            THEN [asked |-> args, presented |-> conn_opts_of(args)]
                            ELSE [conn_opts EXCEPT !.asked = args])
    /\ UNCHANGED <<regVars, raceVars, devVars, statVars>>

\* the detached thread calls connect() without arguments (client.cpp:287)
ReconnectTimerConnectsWith ==
    /\ Running
    /\ woken > 0
    /\ \E throws \in BOOLEAN :
          BecomesPresenting("timer_connects", "timer",
                            connect([Self EXCEPT !.woken = @ - 1], throws),
                            IF client_ok /\ connection_state # "CONNECTED"
                            THEN [conn_opts EXCEPT
                                     !.presented = conn_opts_of(DefaultOptions)]
                            ELSE conn_opts)
    /\ UNCHANGED <<regVars, raceVars, devVars, statVars>>

NextOptions ==
    \/ SetAutoReconnect
    \/ ConnectWith
    \/ AttemptReconnectSpawn
    \/ ReconnectTimerWakes
    \/ ReconnectTimerConnectsWith
    \/ OnSuccess
    \/ OnFailure
    \/ ConnectionLost
    \/ Disconnect

SpecOptions == InitConn /\ [][NextOptions]_vars

\* C35: every connect attempt of a reconnect thread presents the user
\* name, password, keep-alive interval and clean-session flag of the
\* caller's most recent connect() call.
C35_ReconnectPresentsCallersOptions ==
    [][(ReconnectTimerConnectsWith /\ conn_opts'.presented # conn_opts.presented)
       => conn_opts'.presented = conn_opts'.asked]_vars

\* C36: responses are published in the order of delivery: when the
\* response of a request is published, the response of no request that was
\* delivered after it has been published already.
C36_ResponsesInDeliveryOrder ==
    [][\A i, j \in DOMAIN rpc :
          (/\ i < j
           /\ rpc[i].outcome # "published"
           /\ rpc'[i].outcome = "published")
          => rpc[j].outcome # "published"]_vars

\* C37: in every reachable state of the registry every spot that listSpots
\* returns satisfies spotExists and can be moved and deleted, and
\* getActiveSpotCount is the number of ids for which spotExists is true.
C37_ListedSpotsExist ==
    /\ \A spotId \in listSpots(spots_) :
          /\ spotExists(spots_, spotId)
          /\ moveSpot(spots_, spotId, 0, 0).ok
          /\ deleteSpot(spots_, spotId).ok
    /\ getActiveSpotCount(spots_)
          = Cardinality({spotId \in CallIds : spotExists(spots_, spotId)})

\* C38: in every reachable state of the registry every held spot lies in
\* the image: 0 <= x <= 319 and 0 <= y <= 239, whether it was created,
\* moved or loaded from the store.
C38_HeldSpotsInsideImage ==
    \A spotId \in DOMAIN spots_ :
        /\ spots_[spotId].x \in 0..(IMAGE_WIDTH - 1)
        /\ spots_[spotId].y \in 0..(IMAGE_HEIGHT - 1)

(***************************************************************************)
(* ThermalRPCHandler called directly.  A command is the method enum and    *)
(* the nlohmann::json parameters as the handler inspects them: kind is the *)
(* type of the parameters value; id_type, x_type and y_type are the types  *)
(* of its members spotId, x and y ("missing" when the member is absent).   *)
(* A run of the handler yields the invocations of the response callback,   *)
(* whether an exception left the handler, and the registry call's result.  *)
(***************************************************************************)
RequestIds == {"7", "8"}

RPCMethods ==
    {"createSpotMeasurement", "moveSpotMeasurement", "deleteSpotMeasurement",
     "listSpotMeasurements", "getSpotTemperature", "unknown"}

Bag(kind, id_type, spotId, x_type, x, y_type, y) ==
    [kind |-> kind, id_type |-> id_type, spotId |-> spotId,
     x_type |-> x_type, x |-> x, y_type |-> y_type, y |-> y]

ParameterBags ==
    {Bag("null", "missing", "", "missing", 0, "missing", 0),
     Bag("array", "missing", "", "missing", 0, "missing", 0),
     Bag("object", "missing", "", "missing", 0, "missing", 0),
     Bag("object", "missing", "", "integer", 10, "integer", 20),
     Bag("object", "number", "", "integer", 10, "integer", 20),
     Bag("object", "string", "1", "missing", 0, "missing", 0),
     Bag("object", "string", "6", "missing", 0, "missing", 0),
     Bag("object", "string", "1", "integer", 10, "integer", 20),
     Bag("object", "string", "2", "integer", 319, "integer", 239),
     Bag("object", "string", "1", "integer", 320, "integer", 20),
     Bag("object", "string", "1", "float", 10, "integer", 20),
     Bag("object", "string", "1", "integer", 10, "string", 0),
     Bag("object", "string", "1", "string", 0, "string", 0)}

\* json::contains(key): false for every value that is not an object
contains(parameters, member_type) ==
    parameters.kind = "object" /\ member_type # "missing"

\* json::at(key).get<std::string>() returns; it throws when the value is
\* not an object, the key is absent or the member is not a string
at_get_string(parameters) ==
    parameters.kind = "object" /\ parameters.id_type = "string"

\* json::at(key).get<int>() returns; it throws when the value is not an
\* object, the key is absent or the member is not a number
at_get_int(parameters, member_type) ==
    parameters.kind = "object" /\ member_type \in {"integer", "float"}

\* the mutant: the type of spotId is not checked
validateDeleteSpotParamsUntyped(command) ==
    contains(command.parameters, command.parameters.id_type)

\* ThermalRPCHandler::validateDeleteSpotParams
validateDeleteSpotParams(command) ==
    /\ contains(command.parameters, command.parameters.id_type)
    /\ command.parameters.id_type = "string"

\* ThermalRPCHandler::validateGetTempParams
validateGetTempParams(command) ==
    /\ contains(command.parameters, command.parameters.id_type)
    /\ command.parameters.id_type = "string"

\* ThermalRPCHandler::validateCreateSpotParams
validateCreateSpotParams(command) ==
    /\ contains(command.parameters, command.parameters.id_type)
    /\ command.parameters.id_type = "string"
    /\ contains(command.parameters, command.parameters.x_type)
    /\ command.parameters.x_type = "integer"
    /\ contains(command.parameters, command.parameters.y_type)
    /\ command.parameters.y_type = "integer"

\* ThermalRPCHandler::validateMoveSpotParams
validateMoveSpotParams(command) ==
    /\ contains(command.parameters, command.parameters.id_type)
    /\ command.parameters.id_type = "string"
    /\ contains(command.parameters, command.parameters.x_type)
    /\ command.parameters.x_type = "integer"
    /\ contains(command.parameters, command.parameters.y_type)
    /\ command.parameters.y_type = "integer"

\* what a run of the handler did
Ran(calls, res) == [calls |-> calls, threw |-> FALSE, res |-> res]
Thrown(spots)   == [calls |-> <<>>, threw |-> TRUE, res |-> Rejected(spots)]

\* ThermalRPCHandler::sendErrorResponse / sendSuccessResponse: one
\* invocation of response_callback_
sendErrorResponse(request_id, error_code) ==
    <<[id |-> request_id, code |-> error_code]>>

sendSuccessResponse(request_id) == <<[id |-> request_id, code |-> "result"]>>

\* ThermalRPCHandler::handleCreateSpotMeasurement, response by response
CreateSpotMeasurement(request_id, command, spots) ==
    LET p == command.parameters
    IN IF ~validateCreateSpotParams(command)
       THEN Ran(sendErrorResponse(request_id, "MISSING_PARAMETERS"), Rejected(spots))
       ELSE IF ~(at_get_string(p) /\ at_get_int(p, p.x_type) /\ at_get_int(p, p.y_type))
       THEN Thrown(spots)
       ELSE LET res == createSpot(spots, p.spotId, p.x, p.y)
            IN IF res.ok THEN Ran(sendSuccessResponse(request_id), res)
               ELSE IF spotExists(spots, p.spotId)
               THEN Ran(sendErrorResponse(request_id, "SPOT_ALREADY_EXISTS"), res)
               ELSE IF p.x < 0 \/ p.x > 319 \/ p.y < 0 \/ p.y > 239
               THEN Ran(sendErrorResponse(request_id, "INVALID_COORDINATES"), res)
               ELSE IF getActiveSpotCount(spots) >= 5
               THEN Ran(sendErrorResponse(request_id, "MAX_SPOTS_REACHED"), res)
               ELSE Ran(sendErrorResponse(request_id, "INTERNAL_ERROR"), res)

\* ThermalRPCHandler::handleMoveSpotMeasurement, response by response
MoveSpotMeasurement(request_id, command, spots) ==
    LET p == command.parameters
    IN IF ~validateMoveSpotParams(command)
       THEN Ran(sendErrorResponse(request_id, "MISSING_PARAMETERS"), Rejected(spots))
       ELSE IF ~(at_get_string(p) /\ at_get_int(p, p.x_type) /\ at_get_int(p, p.y_type))
       THEN Thrown(spots)
       ELSE IF ~spotExists(spots, p.spotId)
       THEN Ran(sendErrorResponse(request_id, "SPOT_NOT_FOUND"), Rejected(spots))
       ELSE LET res == moveSpot(spots, p.spotId, p.x, p.y)
            IN IF res.ok THEN Ran(sendSuccessResponse(request_id), res)
               ELSE Ran(sendErrorResponse(request_id, "INVALID_COORDINATES"), res)

\* ThermalRPCHandler::handleDeleteSpotMeasurement, response by response
DeleteSpotMeasurement(request_id, command, spots) ==
    LET p == command.parameters
    IN IF ~validateDeleteSpotParams(command)
       THEN Ran(sendErrorResponse(request_id, "MISSING_PARAMETERS"), Rejected(spots))
       ELSE IF ~at_get_string(p) THEN Thrown(spots)
       ELSE IF ~spotExists(spots, p.spotId)
       THEN Ran(sendErrorResponse(request_id, "SPOT_NOT_FOUND"), Rejected(spots))
       ELSE LET res == deleteSpot(spots, p.spotId)
            IN IF res.ok THEN Ran(sendSuccessResponse(request_id), res)
               ELSE Ran(sendErrorResponse(request_id, "INTERNAL_ERROR"), res)

\* ThermalRPCHandler::handleListSpotMeasurements
ListSpotMeasurements(request_id, spots) ==
    Ran(sendSuccessResponse(request_id), Rejected(spots))

\* ThermalRPCHandler::handleGetSpotTemperature, response by response; the
\* reading of an existing spot is never NaN (CoordinateBasedSource is
\* always ready)
GetSpotTemperatureResponse(request_id, command, spots) ==
    LET p == command.parameters
    IN IF ~validateGetTempParams(command)
       THEN Ran(sendErrorResponse(request_id, "MISSING_PARAMETERS"), Rejected(spots))
       ELSE IF ~at_get_string(p) THEN Thrown(spots)
       ELSE IF ~spotExists(spots, p.spotId)
       THEN Ran(sendErrorResponse(request_id, "SPOT_NOT_FOUND"), Rejected(spots))
       ELSE Ran(sendSuccessResponse(request_id), Rejected(spots))

\* ThermalRPCHandler::handleRPCCommand, response by response
RPCCommandResponses(request_id, command, spots) ==
    IF ~response_callback_ THEN Ran(<<>>, Rejected(spots))
    ELSE IF command.method = "createSpotMeasurement"
    THEN CreateSpotMeasurement(request_id, command, spots)
    ELSE IF command.method = "moveSpotMeasurement"
    THEN MoveSpotMeasurement(request_id, command, spots)
    ELSE IF command.method = "deleteSpotMeasurement"
    THEN DeleteSpotMeasurement(request_id, command, spots)
    ELSE IF command.method = "listSpotMeasurements"
    THEN ListSpotMeasurements(request_id, spots)
    ELSE IF command.method = "getSpotTemperature"
    THEN GetSpotTemperatureResponse(request_id, command, spots)
    ELSE Ran(sendErrorResponse(request_id, "UNKNOWN_METHOD"), Rejected(spots))

\* thermal_spots.json when the registry of the handler is constructed
HandlerFiles ==
    {[status |-> "missing", records |-> <<>>],
     [status |-> "ok", records |-> <<FileRec(1, FALSE), FileRec(2, TRUE)>>]}

\* the handler and its registry after construction; rpc holds the last
\* call of handleRPCCommand
InitHandler ==
    /\ file \in HandlerFiles
    /\ spots_ = loadSpots(file)
    /\ last_call = [op |-> "construct", ok |-> TRUE]
    /\ save_failures = 0
    /\ backups = {}
    /\ now = 0
    /\ SensorIdle
    /\ RaceIdle
    /\ StatIdle
    /\ ConnIdle
    /\ DevIdle

\* ThermalRPCHandler::setResponseCallback, with a callable or an empty
\* std::function
SetResponseCallback ==
    /\ \E callback \in BOOLEAN :
          /\ callback # response_callback_
          /\ response_callback_' = callback
    /\ UNCHANGED <<auto_reconnect_requested, thermal_rpc_handler_, disc_pending,
                   sub_threads, subscribed, rpc>>
    /\ UNCHANGED <<regVars, raceVars, connVars, statVars>>

\* ThermalRPCHandler::handleRPCCommand(request_id, command)
HandleRPCCommand ==
    /\ \E request_id \in RequestIds, method \in RPCMethods,
          parameters \in ParameterBags :
          LET command == [method |-> method, parameters |-> parameters]
              run == RPCCommandResponses(request_id, command, spots_)
          IN /\ rpc' = <<[id |-> request_id, command |-> command,
                          callback |-> response_callback_,
                          calls |-> run.calls, threw |-> run.threw]>>
             /\ Commit(method, run.res)
    /\ UNCHANGED <<auto_reconnect_requested, thermal_rpc_handler_,
                   response_callback_, disc_pending, sub_threads, subscribed>>
    /\ UNCHANGED <<raceVars, connVars, statVars>>

NextHandler ==
    \/ SetResponseCallback
    \/ HandleRPCCommand

SpecHandler == InitHandler /\ [][NextHandler]_vars

\* C39: with a response callback installed, handleRPCCommand invokes the
\* callback exactly once, with the request id it was given, and no
\* exception leaves it, whatever the method and the parameters are.
C39_OneResponsePerCommand ==
    \A i \in DOMAIN rpc :
        rpc[i].callback
        => /\ ~rpc[i].threw
           /\ Len(rpc[i].calls) = 1
           /\ rpc[i].calls[1].id = rpc[i].id

\* a delete command whose spotId is a number has been answered, once, with
\* MISSING_PARAMETERS
C39_WronglyTypedParametersAnswered ==
    /\ rpc # <<>>
    /\ rpc[1].callback
    /\ rpc[1].command.method = "deleteSpotMeasurement"
    /\ rpc[1].command.parameters.id_type = "number"
    /\ Len(rpc[1].calls) = 1
    /\ rpc[1].calls[1].code = "MISSING_PARAMETERS"

(***************************************************************************)
(* The subscription of the device under fair scheduling: a subscription    *)
(* thread that was started runs.  Nothing obliges the caller to connect or *)
(* to disconnect, or the transport to answer or to drop.                   *)
(***************************************************************************)
NextSubscribe ==
    \/ DevConnect
    \/ DevOnConnectSuccess
    \/ DevOnConnectFailure
    \/ DevConnectionLost
    \/ DevDisconnect
    \/ DevOnDisconnect
    \/ SubscriptionThread

SpecSubscribe ==
    InitDevice /\ [][NextSubscribe]_vars /\ WF_vars(SubscriptionThread)

\* C40: after every successful connect, the first and every later one, the
\* device eventually holds the subscription to v1/devices/me/rpc/request/+
\* unless the connection ends first.
C40_SubscribedAfterEveryConnect ==
    (conn_event.kind = "on_success" /\ is_connected)
       ~> (subscribed \/ ~is_connected)

====
